---- MODULE Spec2Model ----
(***************************************************************************)
(* A model of the ontology graph-analytics core: the similarity-based      *)
(* matcher (match, merge), the boundary-constrained reachability extractor *)
(* (incident) and the multi-pass causal propagation engine (infer).        *)
(*                                                                         *)
(* A graph is a record [nodes |-> sequence of nodes, edges |-> sequence of *)
(* edges]; the random graph id of a returned graph is left out.  A node is *)
(* [id, embedding, hasEmbedding], an edge is [id, sourceId, targetId,      *)
(* embedding, hasEmbedding]; hasEmbedding = FALSE is the entity whose      *)
(* embedding is still undefined.                                           *)
(***************************************************************************)
EXTENDS Integers, Sequences, FiniteSets, TLC

VARIABLES
    graph,      \* first graph argument of the call
    query,      \* second graph argument (match: query, merge: b)
    sources,    \* sources argument (incident, infer)
    targets,    \* targets argument (incident, infer)
    pc,         \* position of the call
    result,     \* what the call returned or raised
    intervention,   \* infer: the intervention argument, node id -> property id
    maxIterations,  \* infer: options.maxIterations
    oracle,         \* the suggestion provider, where it is a fixed function
    subG,           \* infer: the restricted subgraph
    topo,           \* infer: the pseudo-topological order
    props,          \* infer: the propagation table, node id -> propagations
    prevProps,      \* infer: the copy of the table taken when the pass began
    iteration,      \* infer: the number of passes begun
    converged,      \* infer: the outcome of the last table comparison
    pos,            \* infer: position in topo of the vertex being visited
    calls,          \* the vertices the provider was invoked for in this pass
    rejected,       \* the provider has rejected a call of this run
    args            \* the arguments of a call of an enumerator or vector helper

inferVars ==
    <<intervention, maxIterations, oracle, subG, topo, props, prevProps,
      iteration, converged, pos, calls, rejected>>

vars == <<graph, query, sources, targets, pc, result, inferVars, args>>

(***************************************************************************)
(* Bounds of the model.                                                    *)
(***************************************************************************)
MaxEdges == 2

\* The universe of node ids; a graph's nodes are a subset of it, so that an
\* edge endpoint, a source or a target may name a node the graph lacks.
IdOrder == <<"a", "b", "c">>

Ids == {IdOrder[i] : i \in 1..Len(IdOrder)}

(***************************************************************************)
(* Sequence helpers.                                                       *)
(***************************************************************************)
Range(s) == {s[i] : i \in 1..Len(s)}

SeqOfSet(S) == SelectSeq(IdOrder, LAMBDA x : x \in S)

SeqsUpTo(S, n) == UNION {[1..k -> S] : k \in 0..n}

NoGraph == [nodes |-> <<>>, edges |-> <<>>]

\* the table with no entry; an id without an entry maps to the empty list
NoProps == [x \in Ids |-> <<>>]

\* the values of infer's variables while another operation is modelled
InferIdle ==
    /\ intervention = <<>>
    /\ maxIterations = 0
    /\ oracle = <<>>
    /\ subG = NoGraph
    /\ topo = <<>>
    /\ props = NoProps
    /\ prevProps = NoProps
    /\ iteration = 0
    /\ converged = FALSE
    /\ pos = 0
    /\ calls = <<>>
    /\ rejected = FALSE

PlainEmbedding == <<1, 0>>

mkNode(i) == [id |-> i, embedding |-> PlainEmbedding, hasEmbedding |-> TRUE]

mkEdge(k, s, t) ==
    [id |-> "e" \o ToString(k), sourceId |-> s, targetId |-> t,
     embedding |-> PlainEmbedding, hasEmbedding |-> TRUE]

(***************************************************************************)
(* incident: the R->B reachability subgraph.                               *)
(***************************************************************************)
\* dfs: the stack loop; the popped id is marked and the targets of its
\* out-edges not yet visited are pushed, in edge order.
RECURSIVE dfsLoop(_, _, _)
dfsLoop(edges, stack, visited) ==
    IF stack = <<>> THEN visited
    ELSE LET current == stack[Len(stack)]
             rest == SubSeq(stack, 1, Len(stack) - 1)
         IN  IF current \in visited THEN dfsLoop(edges, rest, visited)
             ELSE LET seen == visited \cup {current}
                      out == SelectSeq(edges, LAMBDA e :
                                 e.sourceId = current /\ e.targetId \notin seen)
                  IN  dfsLoop(edges,
                              rest \o [i \in 1..Len(out) |-> out[i].targetId],
                              seen)

dfs(g, startNodes) == dfsLoop(g.edges, startNodes, {})

reverseGraph(g) ==
    [nodes |-> g.nodes,
     edges |-> [i \in 1..Len(g.edges) |->
                  [g.edges[i] EXCEPT !.id = @ \o "_reversed",
                                     !.sourceId = g.edges[i].targetId,
                                     !.targetId = g.edges[i].sourceId]]]

\* Phase 3: I = F \cap B'
intersection(g, srcs, tgts) == dfs(g, srcs) \cap dfs(reverseGraph(g), tgts)

\* Phase 4: the induced nodes and edges
inducedNodes(g, I) == SelectSeq(g.nodes, LAMBDA n : n.id \in I)

inducedEdges(g, I) ==
    SelectSeq(g.edges, LAMBDA e : e.sourceId \in I /\ e.targetId \in I)

\* A slip the boundary claims must catch: phase 5 left out.
finalEdgesNoBoundary(edges, srcs, tgts) == edges

\* Phase 5: delete the edges (u,v) with v a source or u a target
finalEdges(edges, srcs, tgts) ==
    SelectSeq(edges, LAMBDA e :
        e.targetId \notin Range(srcs) /\ e.sourceId \notin Range(tgts))

incident(g, srcs, tgts) ==
    LET I == intersection(g, srcs, tgts)
    IN  IF I = {} THEN NoGraph
        ELSE [nodes |-> inducedNodes(g, I),
              edges |-> finalEdges(inducedEdges(g, I), srcs, tgts)]

(***************************************************************************)
(* Cosine similarity.  Similarities are kept exactly, in hundredths: the   *)
(* embeddings of the model have integral magnitudes (0, 1 or 5), so that   *)
(* dot / (|a| |b|) is a whole number of hundredths and the floating-point  *)
(* computation of the code is exact on them.                               *)
(***************************************************************************)
RECURSIVE dotProduct(_, _)
dotProduct(a, b) ==
    IF a = <<>> THEN 0
    ELSE a[1] * b[1] + dotProduct(Tail(a), Tail(b))

\* Math.sqrt on the perfect squares the model's embeddings produce
sqrt(n) == CHOOSE r \in 0..n : r * r = n

magnitude(a) == sqrt(dotProduct(a, a))

\* cosineSimilarity throws on vectors of different lengths
lengthMismatch(a, b) == Len(a) # Len(b)

cosineSimilarity(a, b) ==
    IF Len(a) = 0 THEN 0
    ELSE IF magnitude(a) = 0 \/ magnitude(b) = 0 THEN 0
    ELSE (100 * dotProduct(a, b)) \div (magnitude(a) * magnitude(b))

DEFAULT_N == 10

\* 0.5, in hundredths
DEFAULT_THRESHOLD == 50

(***************************************************************************)
(* The lazy enumerator.  A generator is modelled by the sequence of what   *)
(* it yields.                                                              *)
(***************************************************************************)
\* a slip the claim about the order must catch: the counter run from the
\* first list, so that the first list varies fastest
RECURSIVE incrementFromFront(_, _, _)
incrementFromFront(arrays, indices, i) ==
    IF i = 0 THEN [carry |-> TRUE, indices |-> indices]
    ELSE LET p == Len(arrays) - i + 1
         IN  IF indices[p] + 1 > Len(arrays[p])
             THEN incrementFromFront(arrays, [indices EXCEPT ![p] = 1], i - 1)
             ELSE [carry |-> FALSE, indices |-> [indices EXCEPT ![p] = @ + 1]]

\* one step of the mixed-radix counter, from position i down to 1
RECURSIVE increment(_, _, _)
increment(arrays, indices, i) ==
    IF i = 0 THEN [carry |-> TRUE, indices |-> indices]
    ELSE IF indices[i] + 1 > Len(arrays[i])
         THEN increment(arrays, [indices EXCEPT ![i] = 1], i - 1)
         ELSE [carry |-> FALSE, indices |-> [indices EXCEPT ![i] = @ + 1]]

RECURSIVE productLoop(_, _, _)
productLoop(arrays, indices, acc) ==
    LET combo == [k \in 1..Len(arrays) |-> arrays[k][indices[k]]]
        step == increment(arrays, indices, Len(arrays))
    IN  IF step.carry THEN Append(acc, combo)
        ELSE productLoop(arrays, step.indices, Append(acc, combo))

cartesianProduct(arrays) ==
    IF Len(arrays) = 0 THEN <<>>
    ELSE IF \E k \in 1..Len(arrays) : Len(arrays[k]) = 0 THEN <<>>
    ELSE productLoop(arrays, [k \in 1..Len(arrays) |-> 1], <<>>)

take(items, n) ==
    IF n <= 0 THEN <<>>
    ELSE IF Len(items) <= n THEN items
    ELSE SubSeq(items, 1, n)

(***************************************************************************)
(* The matching engine.  A generator that may throw is modelled by         *)
(* [items, error]: what it yields before it ends or throws, and the        *)
(* message it throws ("" when it ends normally).                           *)
(***************************************************************************)
\* A slip the validation claim must catch: the edge ids left unchecked.
isValidGraphNodesOnly(g) ==
    \A i, j \in 1..Len(g.nodes) : g.nodes[i].id = g.nodes[j].id => i = j

isValidGraph(g) ==
    /\ \A i, j \in 1..Len(g.nodes) : g.nodes[i].id = g.nodes[j].id => i = j
    /\ \A i, j \in 1..Len(g.edges) : g.edges[i].id = g.edges[j].id => i = j

\* candidates.sort((a, b) => b.similarity - a.similarity): descending and
\* stable, equal similarities keep their order
RECURSIVE sortDescending(_)
sortDescending(s) ==
    IF s = <<>> THEN <<>>
    ELSE LET front == sortDescending(SubSeq(s, 1, Len(s) - 1))
             c == s[Len(s)]
             k == Cardinality({i \in 1..Len(front) :
                                   front[i].similarity >= c.similarity})
         IN  SubSeq(front, 1, k) \o <<c>> \o SubSeq(front, k + 1, Len(front))

\* the candidates of one reference entity among `pool`, unsorted: those of
\* similarity at least the threshold, in pool order
candidatesOf(ref, pool, threshold) ==
    LET kept == SelectSeq(pool, LAMBDA x :
                    cosineSimilarity(ref.embedding, x.embedding) >= threshold)
    IN  [i \in 1..Len(kept) |->
            [referenceId |-> ref.id, candidateId |-> kept[i].id,
             similarity |-> cosineSimilarity(ref.embedding, kept[i].embedding)]]

\* the first throw of similarNodes' nested loop for query node qn
nodeLoopError(g, qn) ==
    IF ~qn.hasEmbedding THEN "query node must be ready"
    ELSE LET bad == {j \in 1..Len(g.nodes) :
                        \/ ~g.nodes[j].hasEmbedding
                        \/ lengthMismatch(qn.embedding, g.nodes[j].embedding)}
         IN  IF bad = {} THEN ""
             ELSE LET j == CHOOSE x \in bad : \A y \in bad : x <= y
                  IN  IF ~g.nodes[j].hasEmbedding THEN "graph node must be ready"
                      ELSE "Vectors must have the same length"

similarNodesError(g, q) ==
    IF Len(g.nodes) = 0 THEN "Graph has no nodes"
    ELSE IF Len(q.nodes) = 0 THEN "Query has no nodes"
    ELSE LET bad == {i \in 1..Len(q.nodes) : nodeLoopError(g, q.nodes[i]) # ""}
         IN  IF bad = {} THEN ""
             ELSE nodeLoopError(g, q.nodes[CHOOSE x \in bad : \A y \in bad : x <= y])

similarNodes(g, q, n, threshold) ==
    IF similarNodesError(g, q) # ""
    THEN [items |-> <<>>, error |-> similarNodesError(g, q)]
    ELSE [items |-> take(cartesianProduct(
                        [i \in 1..Len(q.nodes) |->
                            sortDescending(candidatesOf(q.nodes[i], g.nodes, threshold))]),
                        n),
          error |-> ""]

\* A slip the edge-cap claims must catch: no cap on the incident edges.
iterateEdgesUncapped(g, subset, n) ==
    IF subset = {} THEN [items |-> <<>>, error |-> "Subset has no nodes"]
    ELSE [items |-> SelectSeq(g.edges, LAMBDA e :
                        e.sourceId \in subset /\ e.targetId \in subset),
          error |-> ""]

\* the first n edges of the graph with both endpoints in the subset; an
\* empty subset is a throw before anything is yielded
iterateEdges(g, subset, n) ==
    IF subset = {} THEN [items |-> <<>>, error |-> "Subset has no nodes"]
    ELSE [items |-> take(SelectSeq(g.edges, LAMBDA e :
                             e.sourceId \in subset /\ e.targetId \in subset), n),
          error |-> ""]

\* nodeMapping.get: the candidate of the last entry for the reference id,
\* "" when there is none
nodeMapping(nodeCandidates, ref) ==
    LET hits == {i \in 1..Len(nodeCandidates) : nodeCandidates[i].referenceId = ref}
    IN  IF hits = {} THEN ""
        ELSE nodeCandidates[CHOOSE x \in hits : \A y \in hits : x >= y].candidateId

\* a query edge is skipped when an endpoint has no mapping
skipped(qe, nodeCandidates) ==
    \/ nodeMapping(nodeCandidates, qe.sourceId) = ""
    \/ nodeMapping(nodeCandidates, qe.targetId) = ""

\* the first throw of similarEdges' loop for query edge qe
edgeLoopError(incidentEdges, qe, nodeCandidates) ==
    IF ~qe.hasEmbedding THEN "graph edge must be ready"
    ELSE IF skipped(qe, nodeCandidates) THEN ""
    ELSE LET connects(e) ==
                 /\ e.sourceId = nodeMapping(nodeCandidates, qe.sourceId)
                 /\ e.targetId = nodeMapping(nodeCandidates, qe.targetId)
             bad == {j \in 1..Len(incidentEdges) :
                        \/ ~incidentEdges[j].hasEmbedding
                        \/ /\ connects(incidentEdges[j])
                           /\ lengthMismatch(qe.embedding, incidentEdges[j].embedding)}
         IN  IF bad = {} THEN ""
             ELSE LET j == CHOOSE x \in bad : \A y \in bad : x <= y
                  IN  IF ~incidentEdges[j].hasEmbedding THEN "graph edge must be ready"
                      ELSE "Vectors must have the same length"

\* A slip the connectivity claim must catch: the endpoints left unchecked.
edgeCandidatesAnyEndpoints(incidentEdges, qe, nodeCandidates, threshold) ==
    sortDescending(candidatesOf(qe, incidentEdges, threshold))

\* the sorted candidates of query edge qe: the incident edges that connect
\* the mapped endpoints, of similarity at least the threshold
edgeCandidates(incidentEdges, qe, nodeCandidates, threshold) ==
    sortDescending(candidatesOf(qe,
        SelectSeq(incidentEdges, LAMBDA e :
            /\ e.sourceId = nodeMapping(nodeCandidates, qe.sourceId)
            /\ e.targetId = nodeMapping(nodeCandidates, qe.targetId)),
        threshold))

\* Array.from(iterateEdges(graph, candidate ids, options)): the array, or
\* the throw of the generator
incidentEdgesOf(g, nodeCandidates, n) ==
    iterateEdges(g, {nodeCandidates[i].candidateId : i \in 1..Len(nodeCandidates)}, n)

\* candidates_ij once the loop over the query edges has ended: one sorted
\* list per query edge that was not skipped
candidates_ij(g, q, nodeCandidates, n, threshold) ==
    LET live == SelectSeq(q.edges, LAMBDA qe : ~skipped(qe, nodeCandidates))
    IN  [i \in 1..Len(live) |->
            edgeCandidates(incidentEdgesOf(g, nodeCandidates, n).items, live[i],
                           nodeCandidates, threshold)]

similarEdges(g, q, nodeCandidates, n, threshold) ==
    LET incidentEdges == incidentEdgesOf(g, nodeCandidates, n).items
        bad == {i \in 1..Len(q.edges) :
                   edgeLoopError(incidentEdges, q.edges[i], nodeCandidates) # ""}
    IN  IF incidentEdgesOf(g, nodeCandidates, n).error # ""
        THEN [items |-> <<>>, error |-> incidentEdgesOf(g, nodeCandidates, n).error]
        ELSE IF bad # {}
        THEN [items |-> <<>>,
              error |-> edgeLoopError(incidentEdges,
                            q.edges[CHOOSE x \in bad : \A y \in bad : x <= y],
                            nodeCandidates)]
        ELSE [items |-> take(cartesianProduct(
                                 candidates_ij(g, q, nodeCandidates, n, threshold)), n),
              error |-> ""]

\* nodeLookup.get / edgeLookup.get: the last entity of the graph with the id
lookup(entities, id) ==
    entities[CHOOSE x \in 1..Len(entities) :
                /\ entities[x].id = id
                /\ \A y \in 1..Len(entities) : entities[y].id = id => y <= x]

subGraphOf(g, nodeCandidates, edgeCands) ==
    [nodes |-> [i \in 1..Len(nodeCandidates) |->
                   lookup(g.nodes, nodeCandidates[i].candidateId)],
     edges |-> [i \in 1..Len(edgeCands) |->
                   lookup(g.edges, edgeCands[i].candidateId)]]

\* the loop of similarSubGraphs over the node assignments from the k-th on
RECURSIVE subGraphsFrom(_, _, _, _, _, _, _)
subGraphsFrom(g, q, assignments, k, acc, n, threshold) ==
    IF k > Len(assignments) THEN [items |-> acc, error |-> ""]
    ELSE IF Len(q.edges) > 0
    THEN LET r == similarEdges(g, q, assignments[k], n, threshold)
         IN  IF r.error # "" THEN [items |-> acc, error |-> r.error]
             ELSE subGraphsFrom(g, q, assignments, k + 1,
                      acc \o [i \in 1..Len(r.items) |->
                                 subGraphOf(g, assignments[k], r.items[i])],
                      n, threshold)
    ELSE subGraphsFrom(g, q, assignments, k + 1,
             Append(acc, subGraphOf(g, assignments[k], <<>>)), n, threshold)

similarSubGraphs(g, q, n, threshold) ==
    LET r == similarNodes(g, q, n, threshold)
    IN  IF r.error # "" THEN [items |-> <<>>, error |-> r.error]
        ELSE subGraphsFrom(g, q, r.items, 1, <<>>, n, threshold)

Raised(msg) == [kind |-> "error", msg |-> msg, graph |-> NoGraph]

Returned(g) == [kind |-> "graph", msg |-> "", graph |-> g]

None == [kind |-> "none", msg |-> "", graph |-> NoGraph]

\* Array.from(take(similarSubGraphs(graph, query), 1)): take asks its source
\* for a second element before it stops, so a throw of the generator on the
\* way to its second element is a throw of match.
match(g, q) ==
    IF ~isValidGraph(g) THEN Raised("Invalid graph")
    ELSE IF ~isValidGraph(q) THEN Raised("Invalid query graph")
    ELSE LET r == similarSubGraphs(g, q, DEFAULT_N, DEFAULT_THRESHOLD)
         IN  IF Len(r.items) >= 2 THEN Returned(r.items[1])
             ELSE IF r.error # "" THEN Raised(r.error)
             ELSE IF Len(r.items) = 1 THEN Returned(r.items[1])
             ELSE None

(***************************************************************************)
(* findNode, findEdge and merge.  A lookup that may throw is modelled by   *)
(* [error, found, value]: the message it throws ("" when it returns), and  *)
(* whether it returns an entity and which.                                 *)
(***************************************************************************)
\* graph.nodes.find(n => n.id === id): the first entity with the id
findFirst(entities, id) ==
    entities[CHOOSE x \in 1..Len(entities) :
                /\ entities[x].id = id
                /\ \A y \in 1..Len(entities) : entities[y].id = id => x <= y]

\* the first throw of a best-match loop of `ref` over `pool`
bestMatchError(ref, pool) ==
    LET bad == {j \in 1..Len(pool) :
                   \/ ~pool[j].hasEmbedding
                   \/ lengthMismatch(ref.embedding, pool[j].embedding)}
    IN  IF bad = {} THEN ""
        ELSE LET j == CHOOSE x \in bad : \A y \in bad : x <= y
             IN  IF ~pool[j].hasEmbedding THEN "node must be ready"
                 ELSE "Vectors must have the same length"

findNodeError(g, node) ==
    IF ~node.hasEmbedding THEN "node must be ready"
    ELSE bestMatchError(node, g.nodes)

findNode(g, node) ==
    IF findNodeError(g, node) # ""
    THEN [error |-> findNodeError(g, node), found |-> FALSE, value |-> node]
    ELSE LET candidates ==
                 sortDescending(candidatesOf(node, g.nodes, DEFAULT_THRESHOLD))
         IN  IF Len(candidates) = 0
             THEN [error |-> "", found |-> FALSE, value |-> node]
             ELSE [error |-> "", found |-> TRUE,
                   value |-> findFirst(g.nodes, candidates[1].candidateId)]

containsNode(g, node) == findNode(g, node).found

\* the edges of g that literally connect the two resolved endpoints
candidateEdges(g, source, target) ==
    SelectSeq(g.edges, LAMBDA e :
        /\ e.sourceId = findNode(g, source).value.id
        /\ e.targetId = findNode(g, target).value.id)

findEdgeError(g, source, target, edge) ==
    IF ~edge.hasEmbedding THEN "edge must be ready"
    ELSE IF findNodeError(g, source) # "" THEN findNodeError(g, source)
    ELSE IF findNodeError(g, target) # "" THEN findNodeError(g, target)
    ELSE IF ~findNode(g, source).found \/ ~findNode(g, target).found THEN ""
    ELSE bestMatchError(edge, candidateEdges(g, source, target))

findEdge(g, source, target, edge) ==
    IF findEdgeError(g, source, target, edge) # ""
    THEN [error |-> findEdgeError(g, source, target, edge), found |-> FALSE,
          value |-> edge]
    ELSE IF ~findNode(g, source).found \/ ~findNode(g, target).found
    THEN [error |-> "", found |-> FALSE, value |-> edge]
    ELSE LET candidates ==
                 sortDescending(candidatesOf(edge,
                     candidateEdges(g, source, target), DEFAULT_THRESHOLD))
         IN  IF Len(candidates) = 0
             THEN [error |-> "", found |-> FALSE, value |-> edge]
             ELSE [error |-> "", found |-> TRUE,
                   value |-> findFirst(g.edges, candidates[1].candidateId)]

containsEdge(g, source, target, edge) == findEdge(g, source, target, edge).found

hasNode(g, id) == \E i \in 1..Len(g.nodes) : g.nodes[i].id = id

\* an edge of b whose two endpoints are nodes of b
resolves(b, edge) == hasNode(b, edge.sourceId) /\ hasNode(b, edge.targetId)

\* the first throw of merge(a, b): of the node loop, then of the edge loop
mergeError(a, b) ==
    LET badNodes == {i \in 1..Len(b.nodes) : findNodeError(a, b.nodes[i]) # ""}
        edgeErr(e) == findEdgeError(a, findFirst(b.nodes, e.sourceId),
                                    findFirst(b.nodes, e.targetId), e)
        badEdges == {i \in 1..Len(b.edges) :
                        resolves(b, b.edges[i]) /\ edgeErr(b.edges[i]) # ""}
    IN  IF badNodes # {}
        THEN findNodeError(a, b.nodes[CHOOSE x \in badNodes : \A y \in badNodes : x <= y])
        ELSE IF badEdges # {}
        THEN edgeErr(b.edges[CHOOSE x \in badEdges : \A y \in badEdges : x <= y])
        ELSE ""

\* An array the code writes to is [items, fresh]: fresh tells that it is
\* an array of its own, so that a write to it is no write to the array it
\* was made from.
sameArray(list) == [items |-> list, fresh |-> FALSE]

\* [...list]
spread(list) == [items |-> list, fresh |-> TRUE]

\* array.push(x) for every x of pushed, in order
pushAll(array, pushed) == [array EXCEPT !.items = @ \o pushed]

\* what the array `original` holds once `array`, made from it, was written
heldBy(original, array) == IF array.fresh THEN original ELSE array.items

\* the `nodes` of merge when it returns
mergedNodes(a, b) ==
    pushAll(spread(a.nodes), SelectSeq(b.nodes, LAMBDA n : ~containsNode(a, n)))

\* the `edges` of merge when it returns
mergedEdges(a, b) ==
    pushAll(spread(a.edges),
            SelectSeq(b.edges, LAMBDA e :
                /\ resolves(b, e)
                /\ ~containsEdge(a, findFirst(b.nodes, e.sourceId),
                                 findFirst(b.nodes, e.targetId), e)))

merge(a, b) ==
    IF mergeError(a, b) # "" THEN Raised(mergeError(a, b))
    ELSE Returned([nodes |-> mergedNodes(a, b).items,
                   edges |-> mergedEdges(a, b).items])

\* the graph a as merge(a, b) leaves it
leftByMerge(a, b) ==
    IF mergeError(a, b) # "" THEN a
    ELSE [nodes |-> heldBy(a.nodes, mergedNodes(a, b)),
          edges |-> heldBy(a.edges, mergedEdges(a, b))]

\* the first throw of the edge filter of intersect(a, b) for an edge of b
\* whose endpoints are nodes of b
intersectEdgeError(a, b, edge) ==
    LET sourceNode == findFirst(b.nodes, edge.sourceId)
        targetNode == findFirst(b.nodes, edge.targetId)
    IN  IF findNodeError(a, sourceNode) # "" THEN findNodeError(a, sourceNode)
        ELSE IF findNodeError(a, targetNode) # "" THEN findNodeError(a, targetNode)
        ELSE IF ~findNode(a, sourceNode).found \/ ~findNode(a, targetNode).found
        THEN ""
        ELSE findEdgeError(a, sourceNode, targetNode, edge)

\* the first throw of intersect(a, b): of the node filter, then of the edge
\* filter
intersectError(a, b) ==
    LET badNodes == {i \in 1..Len(b.nodes) : findNodeError(a, b.nodes[i]) # ""}
        badEdges == {i \in 1..Len(b.edges) :
                        /\ resolves(b, b.edges[i])
                        /\ intersectEdgeError(a, b, b.edges[i]) # ""}
    IN  IF badNodes # {}
        THEN findNodeError(a, b.nodes[CHOOSE x \in badNodes : \A y \in badNodes : x <= y])
        ELSE IF badEdges # {}
        THEN intersectEdgeError(a, b,
                 b.edges[CHOOSE x \in badEdges : \A y \in badEdges : x <= y])
        ELSE ""

\* the edge filter of intersect
keepsEdge(a, b, edge) ==
    /\ resolves(b, edge)
    /\ findNode(a, findFirst(b.nodes, edge.sourceId)).found
    /\ findNode(a, findFirst(b.nodes, edge.targetId)).found
    /\ containsEdge(a, findFirst(b.nodes, edge.sourceId),
                    findFirst(b.nodes, edge.targetId), edge)

intersect(a, b) ==
    IF intersectError(a, b) # "" THEN Raised(intersectError(a, b))
    ELSE Returned([nodes |-> SelectSeq(b.nodes, LAMBDA n : containsNode(a, n)),
                   edges |-> SelectSeq(b.edges, LAMBDA e : keepsEdge(a, b, e))])

(***************************************************************************)
(* pseudoTopoOrder: Tarjan's components, then Kahn on the condensation.    *)
(* The traversal state is [index, low, stack, time, sccOf, order]; index,  *)
(* low and sccOf are maps over the ids with 0 for "no entry", components   *)
(* are numbered from 1 in the order they are popped, and component 0 is    *)
(* the `undefined` that sccOf.get gives for an id the traversal never met. *)
(***************************************************************************)
Min(x, y) == IF x <= y THEN x ELSE y

\* the do-while that pops the component of root u off the stack
RECURSIVE popComponent(_, _, _)
popComponent(st, u, component) ==
    LET v == st.stack[Len(st.stack)]
        st2 == [st EXCEPT !.stack = SubSeq(@, 1, Len(@) - 1),
                          !.sccOf[v] = Len(st.order) + 1]
    IN  IF v = u
        THEN [st2 EXCEPT !.order = Append(@, Append(component, v))]
        ELSE popComponent(st2, u, Append(component, v))

RECURSIVE tarjanDfs(_, _, _), tarjanEdges(_, _, _, _)
\* the edge loop of dfs(u), from the i-th edge of the graph on
tarjanEdges(g, u, i, st) ==
    IF i > Len(g.edges) THEN st
    ELSE IF g.edges[i].sourceId # u THEN tarjanEdges(g, u, i + 1, st)
    ELSE LET v == g.edges[i].targetId
         IN  IF st.index[v] = 0
             THEN LET st2 == tarjanDfs(g, v, st)
                  IN  tarjanEdges(g, u, i + 1,
                          [st2 EXCEPT !.low[u] = Min(st2.low[u], st2.low[v])])
             ELSE IF v \in Range(st.stack)
             THEN tarjanEdges(g, u, i + 1,
                      [st EXCEPT !.low[u] = Min(st.low[u], st.index[v])])
             ELSE tarjanEdges(g, u, i + 1, st)

tarjanDfs(g, u, st) ==
    LET entered == [st EXCEPT !.time = @ + 1,
                              !.index[u] = st.time + 1,
                              !.low[u] = st.time + 1,
                              !.stack = Append(@, u)]
        after == tarjanEdges(g, u, 1, entered)
    IN  IF after.low[u] = after.index[u] THEN popComponent(after, u, <<>>)
        ELSE after

\* for (const s of sources) if (!index.has(s)) dfs(s)
RECURSIVE tarjanRoots(_, _, _, _)
tarjanRoots(g, srcs, i, st) ==
    IF i > Len(srcs) THEN st
    ELSE IF st.index[srcs[i]] # 0 THEN tarjanRoots(g, srcs, i + 1, st)
    ELSE tarjanRoots(g, srcs, i + 1, tarjanDfs(g, srcs[i], st))

\* every id the graph or the call can name
idsNamed(g, srcs) ==
    {g.nodes[i].id : i \in 1..Len(g.nodes)}
        \cup {g.edges[i].sourceId : i \in 1..Len(g.edges)}
        \cup {g.edges[i].targetId : i \in 1..Len(g.edges)}
        \cup Range(srcs)

condensation(g, srcs) ==
    tarjanRoots(g, srcs, 1,
        [index |-> [x \in idsNamed(g, srcs) |-> 0],
         low |-> [x \in idsNamed(g, srcs) |-> 0],
         stack |-> <<>>, time |-> 0,
         sccOf |-> [x \in idsNamed(g, srcs) |-> 0],
         order |-> <<>>])

\* dagAdj: for each component (0 included) its neighbours, in the order the
\* edges first add them
RECURSIVE dagAdjFrom(_, _, _, _)
dagAdjFrom(g, sccOf, i, adj) ==
    IF i > Len(g.edges) THEN adj
    ELSE LET a == sccOf[g.edges[i].sourceId]
             b == sccOf[g.edges[i].targetId]
         IN  IF a # b /\ b \notin Range(adj[a])
             THEN dagAdjFrom(g, sccOf, i + 1, [adj EXCEPT ![a] = Append(@, b)])
             ELSE dagAdjFrom(g, sccOf, i + 1, adj)

\* indeg: the number of neighbour lists a component is in (0: no entry)
inDegrees(adj) ==
    [c \in DOMAIN adj |-> Cardinality({a \in DOMAIN adj : c \in Range(adj[a])})]

\* the inner loop of Kahn over the neighbours of the dequeued component
RECURSIVE relax(_, _, _, _)
relax(neighbours, i, queue, indeg) ==
    IF i > Len(neighbours) THEN [queue |-> queue, indeg |-> indeg]
    ELSE LET v == neighbours[i]
             d == indeg[v] - 1
         IN  IF d = 0
             THEN relax(neighbours, i + 1, Append(queue, v), [indeg EXCEPT ![v] = 0])
             ELSE relax(neighbours, i + 1, queue, [indeg EXCEPT ![v] = d])

RECURSIVE kahn(_, _, _, _)
kahn(adj, queue, indeg, topoComp) ==
    IF queue = <<>> THEN topoComp
    ELSE LET c == Head(queue)
             r == relax(adj[c], 1, Tail(queue), indeg)
         IN  kahn(adj, r.queue, r.indeg, Append(topoComp, c))

RECURSIVE flatten(_, _)
flatten(order, topoComp) ==
    IF topoComp = <<>> THEN <<>>
    ELSE IF Head(topoComp) = 0 THEN flatten(order, Tail(topoComp))
    ELSE order[Head(topoComp)] \o flatten(order, Tail(topoComp))

pseudoTopoOrder(g, srcs) ==
    LET st == condensation(g, srcs)
        comps == 0..Len(st.order)
        adj == dagAdjFrom(g, st.sccOf, 1, [c \in comps |-> <<>>])
        indeg == inDegrees(adj)
        queue == SelectSeq([i \in 1..Len(st.order) |-> i], LAMBDA c : indeg[c] = 0)
    IN  flatten(st.order, kahn(adj, queue, indeg, <<>>))

(***************************************************************************)
(* infer: multi-pass propagation.  A confidence c is the integer           *)
(* c * ConfScale; the confidences of the model are 1 and the numbers       *)
(* 1 - 2^-k, whose sums and products the scale holds exactly.  A property  *)
(* is its id.  A propagation is [property, confidence, from].              *)
(***************************************************************************)
ConfScale == 2^12

Certain == ConfScale

\* options.confThreshold, in hundredths
confThreshold == 15

\* the tolerance of the table comparison, in thousandths
tolerance == 1

belowThreshold(c) == c * 100 < confThreshold * ConfScale

combineConfidences(conf1, conf2) == conf1 + conf2 - (conf1 * conf2) \div ConfScale

\* Math.abs(a - b) > 0.001
differ(a, b) == (IF a >= b THEN a - b ELSE b - a) * 1000 > tolerance * ConfScale

\* map.size: the ids that have an entry
keys(map) == {x \in DOMAIN map : map[x] # <<>>}

\* props2.find(p => p.property.id === id): index of the first, 0 for none
findProperty(entry, id) ==
    IF \E i \in 1..Len(entry) : entry[i].property = id
    THEN CHOOSE i \in 1..Len(entry) :
             /\ entry[i].property = id
             /\ \A j \in 1..(i - 1) : entry[j].property # id
    ELSE 0

propagationMapsEqual(map1, map2) ==
    /\ Cardinality(keys(map1)) = Cardinality(keys(map2))
    /\ \A nodeId \in keys(map1) :
        /\ map2[nodeId] # <<>>
        /\ Len(map1[nodeId]) = Len(map2[nodeId])
        /\ \A i \in 1..Len(map1[nodeId]) :
            LET m == findProperty(map2[nodeId], map1[nodeId][i].property)
            IN  /\ m # 0
                /\ ~differ(map2[nodeId][m].confidence, map1[nodeId][i].confidence)

\* the number a result reports is (the product of the factors)^(1/root);
\* Exactly(c) is the number c
Exactly(c) == [factors |-> <<c>>, root |-> 1]

aggregateConfidence(propagations) ==
    IF Len(propagations) = 0 THEN Exactly(0)
    ELSE IF Len(propagations) = 1
    THEN Exactly(propagations[1].confidence)
    ELSE [factors |-> [i \in 1..Len(propagations) |-> propagations[i].confidence],
          root |-> Len(propagations)]

\* Step 3: the table infer starts from
initialProps(srcs, iv) ==
    [x \in Ids |->
        IF x \in Range(srcs) /\ x \in DOMAIN iv
        THEN <<[property |-> iv[x], confidence |-> Certain, from |-> x]>>
        ELSE <<>>]

loopContinuesOnceMore(it, maxIt, conv) == it <= maxIt /\ ~conv

\* while (iteration < maxIterations && !converged)
loopContinues(it, maxIt, conv) == it < maxIt /\ ~conv

incoming(g, nodeId) == SelectSeq(g.edges, LAMBDA e : e.targetId = nodeId)

\* the incoming edges that contribute a predecessor: the source holds
\* properties and is a node of the subgraph
contributing(g, table, nodeId) ==
    SelectSeq(incoming(g, nodeId),
              LAMBDA e : /\ table[e.sourceId] # <<>>
                         /\ \E i \in 1..Len(g.nodes) : g.nodes[i].id = e.sourceId)

\* a slip the claim about the provider's calls must catch: the check of
\* the predecessor list left out
reachesProviderWithAnyIncoming(g, srcs, table, nodeId) ==
    /\ nodeId \notin Range(srcs)
    /\ incoming(g, nodeId) # <<>>
    /\ \E i \in 1..Len(g.nodes) : g.nodes[i].id = nodeId

\* the visit of nodeId reaches the call of the provider
reachesProvider(g, srcs, table, nodeId) ==
    /\ nodeId \notin Range(srcs)
    /\ incoming(g, nodeId) # <<>>
    /\ contributing(g, table, nodeId) # <<>>
    /\ \E i \in 1..Len(g.nodes) : g.nodes[i].id = nodeId

\* what the provider is given: the vertex, and per contributing edge the
\* predecessor with the ids of its properties
providerInput(g, table, nodeId) ==
    [current |-> nodeId,
     predecessors |->
        [k \in 1..Len(contributing(g, table, nodeId)) |->
            LET e == contributing(g, table, nodeId)[k]
            IN  [node |-> e.sourceId, edge |-> e.id,
                 props |-> [i \in 1..Len(table[e.sourceId]) |->
                               table[e.sourceId][i].property]]]]

\* sourceMapping[0]
firstSource(g, table, nodeId) == contributing(g, table, nodeId)[1].sourceId

\* a slip the claim about the table must catch: the threshold left out
applySuggestionUnfiltered(entry, suggestion, from) ==
    LET i == findProperty(entry, suggestion.id)
    IN  IF i = 0
        THEN Append(entry, [property |-> suggestion.id,
                            confidence |-> suggestion.confidence,
                            from |-> from])
        ELSE [entry EXCEPT ![i].confidence =
                 combineConfidences(entry[i].confidence, suggestion.confidence)]

\* the body of the loop over the suggestions, for one suggestion
applySuggestion(entry, suggestion, from) ==
    IF belowThreshold(suggestion.confidence) THEN entry
    ELSE LET i == findProperty(entry, suggestion.id)
         IN  IF i = 0
             THEN Append(entry, [property |-> suggestion.id,
                                 confidence |-> suggestion.confidence,
                                 from |-> from])
             ELSE LET combined == combineConfidences(entry[i].confidence,
                                                     suggestion.confidence)
                  IN  [entry EXCEPT ![i] =
                          [property |-> entry[i].property,
                           confidence |-> combined,
                           from |-> IF suggestion.confidence > combined
                                    THEN from ELSE entry[i].from]]

RECURSIVE applySuggestions(_, _, _)
applySuggestions(entry, suggestions, from) ==
    IF suggestions = <<>> THEN entry
    ELSE applySuggestions(applySuggestion(entry, Head(suggestions), from),
                          Tail(suggestions), from)

\* the result for one target; of the reasoning the opening is kept
resultFor(table, targetId, it) ==
    IF table[targetId] = <<>>
    THEN [targetNodeId |-> targetId, predictedProperties |-> <<>>,
          confidence |-> Exactly(0),
          reasoning |-> "No strong propagation"]
    ELSE [targetNodeId |-> targetId,
          predictedProperties |->
              [i \in 1..Len(table[targetId]) |-> table[targetId][i].property],
          confidence |-> aggregateConfidence(table[targetId]),
          reasoning |-> "Converged after " \o ToString(it) \o " iterations"]

noPathResultAsUnpropagated(targetId) ==
    [targetNodeId |-> targetId, predictedProperties |-> <<>>,
     confidence |-> Exactly(0), reasoning |-> "No strong propagation"]

noPathResult(targetId) ==
    [targetNodeId |-> targetId, predictedProperties |-> <<>>,
     confidence |-> Exactly(0), reasoning |-> "No R->B path"]

InferReturned(rs) == [kind |-> "results", msg |-> "", results |-> rs]

InferRejected(msg) == [kind |-> "error", msg |-> msg, results |-> <<>>]

(***************************************************************************)
(* The specification of incident: every graph over the id universe with up *)
(* to MaxEdges edges (dangling endpoints included), every list of sources  *)
(* and of targets.                                                         *)
(***************************************************************************)
IncidentGraphs ==
    {[nodes |-> [i \in 1..Len(SeqOfSet(N)) |-> mkNode(SeqOfSet(N)[i])],
      edges |-> [k \in 1..Len(es) |-> mkEdge(k, es[k][1], es[k][2])]] :
        N \in SUBSET Ids, es \in SeqsUpTo(Ids \X Ids, MaxEdges)}

IdLists == {SeqOfSet(S) : S \in SUBSET Ids}

InitIncident ==
    /\ graph \in IncidentGraphs
    /\ query = NoGraph
    /\ sources \in IdLists
    /\ targets \in IdLists
    /\ pc = "incident"
    /\ result = NoGraph
    /\ InferIdle
    /\ args = <<>>

IncidentCall ==
    /\ pc = "incident"
    /\ result' = incident(graph, sources, targets)
    /\ pc' = "incidentDone"
    /\ UNCHANGED <<graph, query, sources, targets, inferVars, args>>

NextIncident == IncidentCall

SpecIncident == InitIncident /\ [][NextIncident]_vars

(***************************************************************************)
(* The specification of match and similarSubGraphs.  The inputs are drawn  *)
(* from four families:                                                     *)
(*  - ValidationInputs: tiny graphs with repeated ids, no nodes, missing   *)
(*    embeddings and an embedding of another length;                       *)
(*  - SmallInputs: every valid graph of up to two nodes and MaxMatchEdges  *)
(*    edges against every query of up to two nodes and MaxQueryEdges edges *)
(*    (a query edge may name a node the query lacks), over graph nodes     *)
(*    East or North, query nodes East or Slanted, and edges that equal the *)
(*    query's or are orthogonal to it;                                     *)
(*  - WideInputs: four graph nodes that all resemble both query nodes      *)
(*    (sixteen assignments, more than DEFAULT_N) and one graph edge;       *)
(*  - ParallelInputs: up to MaxParallel edges from a to b of which one     *)
(*    equals the query edge and one resembles it less.                     *)
(***************************************************************************)
MaxMatchEdges == 2

MaxQueryEdges == 1

MaxParallel == 11

East == <<1, 0>>

North == <<0, 1>>

\* cosine 0.6 with East and 0.8 with North
Slanted == <<3, 4>>

Short == <<1>>

QueryIds == {"p", "q"}

WideIds == <<"a", "b", "c", "d">>

entity(i, emb, has) == [id |-> i, embedding |-> emb, hasEmbedding |-> has]

link(i, s, t, emb, has) ==
    [id |-> i, sourceId |-> s, targetId |-> t, embedding |-> emb, hasEmbedding |-> has]

ValidationNodes ==
    SeqsUpTo({entity(i, x[1], x[2]) :
                 i \in {"a", "b"},
                 x \in {<<East, TRUE>>, <<East, FALSE>>, <<Short, TRUE>>}}, 2)

ValidationEdges ==
    {<<>>, <<link("e1", "a", "a", East, TRUE)>>,
     <<link("e1", "a", "a", East, TRUE), link("e1", "a", "a", East, TRUE)>>}

ValidationGraphs == {[nodes |-> ns, edges |-> es] : ns \in ValidationNodes, es \in ValidationEdges}

ValidationInputs == ValidationGraphs \X ValidationGraphs

positional(ids, embs) == [i \in 1..Len(embs) |-> entity(ids[i], embs[i], TRUE)]

numbered(es) ==
    [k \in 1..Len(es) |-> link("e" \o ToString(k), es[k][1], es[k][2], es[k][3], TRUE)]

SmallGraphs ==
    UNION {{[nodes |-> positional(IdOrder, embs), edges |-> numbered(es)] :
               embs \in [1..n -> {East, North}],
               es \in SeqsUpTo({IdOrder[i] : i \in 1..n} \X {IdOrder[i] : i \in 1..n}
                                   \X {East, North}, MaxMatchEdges)} :
           n \in 1..2}

SmallQueries ==
    UNION {{[nodes |-> positional(<<"p", "q">>, embs), edges |-> numbered(es)] :
               embs \in [1..n -> {East, Slanted}],
               es \in SeqsUpTo(QueryIds \X QueryIds \X {East}, MaxQueryEdges)} :
           n \in 1..2}

SmallInputs == SmallGraphs \X SmallQueries

PairQuery ==
    [nodes |-> positional(<<"p", "q">>, <<East, East>>),
     edges |-> numbered(<<<<"p", "q", East>>>>)]

WideInputs ==
    {<<[nodes |-> positional(WideIds, embs),
        edges |-> numbered(<<<<WideIds[i], WideIds[j], East>>>>)],
       PairQuery>> :
        embs \in [1..4 -> {East, Slanted}], i \in 1..4, j \in 1..4}

\* k edges from a to b: the j-th equal to the query edge, the i-th (if
\* another) resembling it less, the others not at all
ParallelInputs ==
    {<<[nodes |-> positional(IdOrder, <<East, East>>),
        edges |-> numbered([m \in 1..k |->
                     <<"a", "b", IF m = j THEN East
                                 ELSE IF m = i THEN Slanted ELSE North>>])],
       PairQuery>> :
        k \in 1..MaxParallel, j \in 1..MaxParallel, i \in 1..MaxParallel}

MatchInputs == ValidationInputs \cup SmallInputs \cup WideInputs \cup ParallelInputs

InitMatch ==
    /\ \E p \in MatchInputs : graph = p[1] /\ query = p[2]
    /\ sources = <<>>
    /\ targets = <<>>
    /\ pc = "call"
    /\ result = None
    /\ InferIdle
    /\ args = <<>>

MatchCall ==
    /\ pc = "call"
    /\ result' = match(graph, query)
    /\ pc' = "matchDone"
    /\ UNCHANGED <<graph, query, sources, targets, inferVars, args>>

\* the whole of what similarSubGraphs yields, with the default options
SimilarSubGraphsCall ==
    /\ pc = "call"
    /\ result' = similarSubGraphs(graph, query, DEFAULT_N, DEFAULT_THRESHOLD)
    /\ pc' = "subGraphsDone"
    /\ UNCHANGED <<graph, query, sources, targets, inferVars, args>>

NextMatch == MatchCall \/ SimilarSubGraphsCall

SpecMatch == InitMatch /\ [][NextMatch]_vars

(***************************************************************************)
(* Claims about match and similarSubGraphs.                                *)
(***************************************************************************)
NodeIdsOf(g) == {g.nodes[i].id : i \in 1..Len(g.nodes)}

LacksEmbedding(g) == \E i \in 1..Len(g.nodes) : ~g.nodes[i].hasEmbedding

DistinctIds(s) == \A i, j \in 1..Len(s) : s[i].id = s[j].id => i = j

ValidInput(g) == DistinctIds(g.nodes) /\ DistinctIds(g.edges)

\* C3: match raises an error when the graph or the query repeats a node id
\* or an edge id (the graph's check first, then the query's), when either
\* has no nodes, and when a node of either has no embedding.
C3_MatchRaises ==
    pc = "matchDone" =>
        /\ ~ValidInput(graph) => result = Raised("Invalid graph")
        /\ ValidInput(graph) /\ ~ValidInput(query) =>
              result = Raised("Invalid query graph")
        /\ Len(graph.nodes) = 0 \/ Len(query.nodes) = 0 => result.kind = "error"
        /\ LacksEmbedding(graph) \/ LacksEmbedding(query) => result.kind = "error"

\* C3 witness: match has raised on valid, non-empty inputs whose only
\* defect is the missing embedding of the query's second node.
C3_Witness ==
    /\ pc = "matchDone"
    /\ ValidInput(graph) /\ ValidInput(query)
    /\ Len(graph.nodes) > 0 /\ Len(query.nodes) = 2
    /\ ~LacksEmbedding(graph)
    /\ query.nodes[1].hasEmbedding /\ ~query.nodes[2].hasEmbedding
    /\ result = Raised("query node must be ready")

Similar(x, y) == cosineSimilarity(x.embedding, y.embedding) >= DEFAULT_THRESHOLD

\* the subgraph sg answers the query: one graph node per query node, each
\* resembling its query node, and every edge a graph edge that joins the
\* nodes assigned to the endpoints of a query edge it resembles
Answers(sg) ==
    /\ Len(sg.nodes) = Len(query.nodes)
    /\ \A i \in 1..Len(sg.nodes) :
          /\ sg.nodes[i] \in Range(graph.nodes)
          /\ Similar(query.nodes[i], sg.nodes[i])
    /\ \A k \in 1..Len(sg.edges) :
          /\ sg.edges[k] \in Range(graph.edges)
          /\ \E m \in 1..Len(query.edges) : \E i, j \in 1..Len(query.nodes) :
                /\ query.nodes[i].id = query.edges[m].sourceId
                /\ query.nodes[j].id = query.edges[m].targetId
                /\ sg.edges[k].sourceId = sg.nodes[i].id
                /\ sg.edges[k].targetId = sg.nodes[j].id
                /\ Similar(query.edges[m], sg.edges[k])

\* C4: every subgraph returned by match, and every subgraph yielded by
\* similarSubGraphs on a valid graph and query, has one similar graph node
\* per query node and only graph edges that join the nodes assigned to the
\* endpoints of a query edge they resemble.
C4_SubgraphsAnswerQuery ==
    /\ pc = "matchDone" /\ result.kind = "graph" => Answers(result.graph)
    /\ pc = "subGraphsDone" /\ ValidInput(graph) /\ ValidInput(query) =>
          \A x \in 1..Len(result.items) : Answers(result.items[x])

\* C4 witness: similarSubGraphs has yielded a subgraph with an edge although
\* the graph also has a similar edge between other nodes.
C4_Witness ==
    /\ pc = "subGraphsDone"
    /\ ValidInput(graph) /\ ValidInput(query)
    /\ Len(result.items) >= 1
    /\ Len(result.items[1].edges) = 1
    /\ \E m \in 1..Len(graph.edges) :
          /\ Similar(query.edges[1], graph.edges[m])
          /\ graph.edges[m].sourceId # result.items[1].edges[1].sourceId

(***************************************************************************)
(* C5: the result of match stated from the claim, not from the generators. *)
(***************************************************************************)
\* the candidates of the i-th query node, most similar first
Ranked(i) ==
    sortDescending(candidatesOf(query.nodes[i], graph.nodes, DEFAULT_THRESHOLD))

\* a choice picks one candidate per query node, by its place in Ranked
Choices ==
    {f \in [1..Len(query.nodes) -> 1..Len(graph.nodes)] :
        \A i \in 1..Len(query.nodes) : f[i] <= Len(Ranked(i))}

\* the place of a choice in the enumeration, the last query node fastest
RECURSIVE PlaceFrom(_, _)
PlaceFrom(f, i) ==
    IF i > Len(query.nodes) THEN 0
    ELSE LET below == {j \in 1..Len(query.nodes) : j > i}
             RECURSIVE Prod(_)
             Prod(S) == IF S = {} THEN 1
                        ELSE LET j == CHOOSE x \in S : TRUE
                             IN  Len(Ranked(j)) * Prod(S \ {j})
         IN  (f[i] - 1) * Prod(below) + PlaceFrom(f, i + 1)

Place(f) == PlaceFrom(f, 1) + 1

\* the graph node id a choice assigns to the query node of id x
AssignedTo(f, x) ==
    LET i == CHOOSE k \in 1..Len(query.nodes) : query.nodes[k].id = x
    IN  Ranked(i)[f[i]].candidateId

\* the graph edges that answer query edge m under the choice f
AnswersOf(f, m) ==
    {e \in 1..Len(graph.edges) :
        /\ graph.edges[e].sourceId = AssignedTo(f, query.edges[m].sourceId)
        /\ graph.edges[e].targetId = AssignedTo(f, query.edges[m].targetId)
        /\ Similar(query.edges[m], graph.edges[e])}

Qualifies(f) == \A m \in 1..Len(query.edges) : AnswersOf(f, m) # {}

\* the most similar answer of query edge m, the earliest among equals
BestAnswer(f, m) ==
    CHOOSE e \in AnswersOf(f, m) : \A d \in AnswersOf(f, m) :
        LET se == cosineSimilarity(query.edges[m].embedding, graph.edges[e].embedding)
            sd == cosineSimilarity(query.edges[m].embedding, graph.edges[d].embedding)
        IN  se > sd \/ (se = sd /\ e <= d)

FirstQualifying == {f \in Choices : Place(f) <= DEFAULT_N /\ Qualifies(f)}

ExpectedMatch ==
    IF FirstQualifying = {} THEN None
    ELSE LET f == CHOOSE x \in FirstQualifying :
                      \A y \in FirstQualifying : Place(x) <= Place(y)
         IN  Returned(
                [nodes |-> [i \in 1..Len(query.nodes) |->
                               lookup(graph.nodes, Ranked(i)[f[i]].candidateId)],
                 edges |-> [m \in 1..Len(query.edges) |->
                               graph.edges[BestAnswer(f, m)]]])

AllReady(g) ==
    /\ \A i \in 1..Len(g.nodes) : g.nodes[i].hasEmbedding /\ Len(g.nodes[i].embedding) = 2
    /\ \A i \in 1..Len(g.edges) : g.edges[i].hasEmbedding /\ Len(g.edges[i].embedding) = 2

\* the inputs C5 speaks of: valid, with nodes and embeddings throughout, and
\* every query edge between nodes of the query
C5_Applies ==
    /\ ValidInput(graph) /\ ValidInput(query)
    /\ Len(graph.nodes) > 0 /\ Len(query.nodes) > 0
    /\ AllReady(graph) /\ AllReady(query)
    /\ \A m \in 1..Len(query.edges) :
          /\ query.edges[m].sourceId \in NodeIdsOf(query)
          /\ query.edges[m].targetId \in NodeIdsOf(query)

\* C5: on such inputs match returns the first of the first DEFAULT_N node
\* assignments every query edge of which has a similar graph edge between
\* the assigned endpoints, with the most similar such edge per query edge,
\* and none exactly when none of those assignments qualifies.
C5_FirstQualifyingAssignment ==
    pc = "matchDone" /\ C5_Applies => result = ExpectedMatch

\* the same on graphs with at most DEFAULT_N edges
C5_UpToTenEdges ==
    pc = "matchDone" /\ C5_Applies /\ Len(graph.edges) <= DEFAULT_N =>
        result = ExpectedMatch

\* C17: when the query has more nodes than the graph, match returns none.
\* Stated for the valid inputs with embeddings throughout and a graph that
\* has nodes, on which match does not raise.
C17_LargerQueryMatchesNothing ==
    (/\ pc = "matchDone"
     /\ ValidInput(graph) /\ ValidInput(query)
     /\ AllReady(graph) /\ AllReady(query)
     /\ Len(graph.nodes) >= 1
     /\ Len(query.nodes) > Len(graph.nodes)) =>
        result = None

\* the same when no two nodes of the query resemble the same graph node
LargerQueryOfUnlikeNodes ==
    (/\ pc = "matchDone"
     /\ ValidInput(graph) /\ ValidInput(query)
     /\ AllReady(graph) /\ AllReady(query)
     /\ Len(graph.nodes) >= 1
     /\ Len(query.nodes) > Len(graph.nodes)
     /\ \A i, j \in 1..Len(query.nodes) : \A k \in 1..Len(graph.nodes) :
           Similar(query.nodes[i], graph.nodes[k])
               /\ Similar(query.nodes[j], graph.nodes[k]) => i = j) =>
        result = None

(***************************************************************************)
(* The specification of merge and intersect: the call with (g, g) for      *)
(* every valid graph g of up to two nodes and MaxMergeEdges edges with     *)
(* embeddings throughout, and with (a, b) for smaller a and b (b's nodes   *)
(* are p and q).  An edge may name a node its graph lacks.                 *)
(***************************************************************************)
MaxMergeEdges == 2

MaxPairEdges == 1

MergeGraphs(ids, embeddings, edgeEmbeddings, maxEdges) ==
    UNION {{[nodes |-> positional(ids, embs), edges |-> numbered(es)] :
               embs \in [1..n -> embeddings],
               es \in SeqsUpTo(Range(ids) \X Range(ids) \X edgeEmbeddings, maxEdges)} :
           n \in 0..2}

MergeInputs ==
    {<<g, g>> : g \in MergeGraphs(<<"a", "b">>, {East, North, Slanted},
                                  {East, North}, MaxMergeEdges)}
    \cup (MergeGraphs(<<"a", "b">>, {East, North}, {East, North}, MaxPairEdges)
            \X MergeGraphs(<<"p", "q">>, {East, Slanted}, {East}, MaxPairEdges))

InitMerge ==
    /\ \E p \in MergeInputs : graph = p[1] /\ query = p[2]
    /\ sources = <<>>
    /\ targets = <<>>
    /\ pc = "call"
    /\ result = None
    /\ InferIdle
    /\ args = <<>>

MergeCall ==
    /\ pc = "call"
    /\ result' = merge(graph, query)
    /\ graph' = leftByMerge(graph, query)
    /\ pc' = "mergeDone"
    /\ UNCHANGED <<query, sources, targets, inferVars, args>>

IntersectCall ==
    /\ pc = "call"
    /\ result' = intersect(graph, query)
    /\ pc' = "intersectDone"
    /\ UNCHANGED <<graph, query, sources, targets, inferVars, args>>

NextMerge == MergeCall \/ IntersectCall

SpecMerge == InitMerge /\ [][NextMerge]_vars

IdsOf(s) == [i \in 1..Len(s) |-> s[i].id]

\* C6: for a graph g with embeddings throughout, merge(g, g) has exactly
\* the nodes and the edges of g, none of them twice.
C6_MergeIdempotent ==
    pc = "mergeDone" /\ query = graph /\ AllReady(graph) =>
        /\ result.kind = "graph"
        /\ IdsOf(result.graph.nodes) = IdsOf(graph.nodes)
        /\ IdsOf(result.graph.edges) = IdsOf(graph.edges)

\* what does hold of merge(g, g): the nodes are those of g, once each
MergeSelfKeepsNodes ==
    pc = "mergeDone" /\ query = graph /\ AllReady(graph) =>
        /\ result.kind = "graph"
        /\ result.graph.nodes = graph.nodes

\* every edge of g joins nodes of g
NoDanglingIn(g) ==
    \A i \in 1..Len(g.edges) :
        /\ \E j \in 1..Len(g.nodes) : g.nodes[j].id = g.edges[i].sourceId
        /\ \E j \in 1..Len(g.nodes) : g.nodes[j].id = g.edges[i].targetId

\* a has a node that resembles n
HasMatch(a, n) == \E i \in 1..Len(a.nodes) : Similar(n, a.nodes[i])

\* the node of a that n is matched to: the most similar one, the earliest
\* among equals
BestMatch(a, n) ==
    a.nodes[CHOOSE i \in 1..Len(a.nodes) :
                /\ Similar(n, a.nodes[i])
                /\ \A j \in 1..Len(a.nodes) :
                      \/ cosineSimilarity(n.embedding, a.nodes[j].embedding)
                             < cosineSimilarity(n.embedding, a.nodes[i].embedding)
                      \/ (cosineSimilarity(n.embedding, a.nodes[j].embedding)
                             = cosineSimilarity(n.embedding, a.nodes[i].embedding)
                          /\ i <= j)]

\* the edge e of b has a counterpart in a: its endpoints are nodes of b,
\* and a has an edge that resembles e from a node that resembles the
\* source of e to a node that resembles the target of e
HasCounterpart(a, b, e) ==
    \E s, t \in 1..Len(b.nodes) :
        /\ b.nodes[s].id = e.sourceId
        /\ b.nodes[t].id = e.targetId
        /\ \E k \in 1..Len(a.edges) : \E u, v \in 1..Len(a.nodes) :
              /\ Similar(b.nodes[s], a.nodes[u])
              /\ Similar(b.nodes[t], a.nodes[v])
              /\ a.edges[k].sourceId = a.nodes[u].id
              /\ a.edges[k].targetId = a.nodes[v].id
              /\ Similar(e, a.edges[k])

\* the narrower counterpart: a has an edge that resembles e from the best
\* match of the source of e to the best match of the target of e
HasCounterpartBetweenBestMatches(a, b, e) ==
    \E s, t \in 1..Len(b.nodes) :
        /\ b.nodes[s].id = e.sourceId
        /\ b.nodes[t].id = e.targetId
        /\ HasMatch(a, b.nodes[s])
        /\ HasMatch(a, b.nodes[t])
        /\ \E k \in 1..Len(a.edges) :
              /\ a.edges[k].sourceId = BestMatch(a, b.nodes[s]).id
              /\ a.edges[k].targetId = BestMatch(a, b.nodes[t]).id
              /\ Similar(e, a.edges[k])

\* C13: merge(a, b) is a's nodes and edges, then the nodes of b that no
\* node of a resembles and the edges of b that have no counterpart in a.
C13_MergeAddsTheUncontained ==
    pc = "mergeDone" =>
        /\ result.kind = "graph"
        /\ result.graph.nodes =
               graph.nodes \o SelectSeq(query.nodes, LAMBDA n : ~HasMatch(graph, n))
        /\ result.graph.edges =
               graph.edges \o SelectSeq(query.edges,
                                  LAMBDA e : ~HasCounterpart(graph, query, e))

\* what holds of it: when every edge of b joins nodes of b, the edges of b
\* that are added are those without a counterpart between the best matches
\* of their endpoints
MergeAddsTheUncontainedWithoutDangling ==
    pc = "mergeDone" /\ NoDanglingIn(query) =>
        /\ result.kind = "graph"
        /\ result.graph.nodes =
               graph.nodes \o SelectSeq(query.nodes, LAMBDA n : ~HasMatch(graph, n))
        /\ result.graph.edges =
               graph.edges \o SelectSeq(query.edges,
                   LAMBDA e : ~HasCounterpartBetweenBestMatches(graph, query, e))

\* C14: intersect(a, b) is the nodes of b that a node of a resembles and
\* the edges of b for which a has a similar edge between a match of the
\* source and a match of the target, a match being any node of a of
\* similarity at least the threshold.
C14_IntersectKeepsTheContained ==
    pc = "intersectDone" =>
        /\ result.kind = "graph"
        /\ result.graph.nodes =
               SelectSeq(query.nodes, LAMBDA n : HasMatch(graph, n))
        /\ result.graph.edges =
               SelectSeq(query.edges, LAMBDA e : HasCounterpart(graph, query, e))

\* what holds of it: the nodes are as C14 says, and the edges kept are
\* those with a counterpart between the best matches of their endpoints
IntersectKeepsTheContainedBetweenBestMatches ==
    pc = "intersectDone" =>
        /\ result.kind = "graph"
        /\ result.graph.nodes =
               SelectSeq(query.nodes, LAMBDA n : HasMatch(graph, n))
        /\ result.graph.edges =
               SelectSeq(query.edges,
                   LAMBDA e : HasCounterpartBetweenBestMatches(graph, query, e))

(***************************************************************************)
(* Reachability stated independently of the traversal: the ids reachable   *)
(* from S along the edges es, by closing S under the edge relation.        *)
(***************************************************************************)
RECURSIVE Closure(_, _)
Closure(es, S) ==
    LET T == S \cup {es[i].targetId : i \in {j \in 1..Len(es) : es[j].sourceId \in S}}
    IN  IF T = S THEN S ELSE Closure(es, T)

Reaches(es, u, v) == v \in Closure(es, {u})

\* the ids on some source->target path of the graph g
OnPath(g) ==
    {v \in Ids : /\ \E s \in Range(sources) : Reaches(g.edges, s, v)
                 /\ \E t \in Range(targets) : Reaches(g.edges, v, t)}

NodeIds(g) == {g.nodes[i].id : i \in 1..Len(g.nodes)}

\* C1: in the graph returned by incident no edge enters a source and no
\* edge leaves a target.
C1_BoundaryDegrees ==
    pc = "incidentDone" =>
        \A i \in 1..Len(result.edges) :
            /\ result.edges[i].targetId \notin Range(sources)
            /\ result.edges[i].sourceId \notin Range(targets)

\* C1 witness: the graph has an edge between two on-path vertices that
\* enters a source, and the call has returned a graph that still has edges.
C1_Witness ==
    /\ pc = "incidentDone"
    /\ result.edges # <<>>
    /\ \E i \in 1..Len(graph.edges) :
          /\ graph.edges[i].sourceId \in OnPath(graph)
          /\ graph.edges[i].targetId \in OnPath(graph)
          /\ graph.edges[i].targetId \in Range(sources)

\* C2 as stated: the returned nodes are the graph's nodes on a
\* source->target path, and the returned edges are the graph's edges with
\* both endpoints among those nodes that respect the boundary.
C2_ExactResult ==
    pc = "incidentDone" =>
        LET P == OnPath(graph) \cap NodeIds(graph)
        IN  /\ result.nodes = SelectSeq(graph.nodes, LAMBDA n : n.id \in P)
            /\ result.edges = SelectSeq(graph.edges, LAMBDA e :
                   /\ e.sourceId \in P /\ e.targetId \in P
                   /\ e.targetId \notin Range(sources)
                   /\ e.sourceId \notin Range(targets))

\* What the code computes: the same with the on-path ids taken whether or
\* not they name a node of the graph.
IncidentByIds ==
    pc = "incidentDone" =>
        LET P == OnPath(graph)
        IN  /\ result.nodes = SelectSeq(graph.nodes, LAMBDA n : n.id \in P)
            /\ result.edges = SelectSeq(graph.edges, LAMBDA e :
                   /\ e.sourceId \in P /\ e.targetId \in P
                   /\ e.targetId \notin Range(sources)
                   /\ e.sourceId \notin Range(targets))

\* the call names only nodes of the graph (no edge endpoint, source or
\* target lacks its node) and no vertex is both a source and a target
WellFormedCall ==
    /\ Range(sources) \cap Range(targets) = {}
    /\ \A i \in 1..Len(graph.edges) :
          graph.edges[i].sourceId \in NodeIds(graph) /\ graph.edges[i].targetId \in NodeIds(graph)
    /\ Range(sources) \subseteq NodeIds(graph)
    /\ Range(targets) \subseteq NodeIds(graph)

\* C10: in the returned graph every vertex and every edge lies on a
\* directed path from a source to a target that uses returned edges only.
\* Stated for the calls that name only nodes of the graph and keep sources
\* and targets apart, where it already fails.
C10_EverythingOnPath ==
    pc = "incidentDone" /\ WellFormedCall =>
        /\ \A i \in 1..Len(result.nodes) :
              /\ \E s \in Range(sources) :
                    Reaches(result.edges, s, result.nodes[i].id)
              /\ \E t \in Range(targets) :
                    Reaches(result.edges, result.nodes[i].id, t)
        /\ \A i \in 1..Len(result.edges) :
              /\ \E s \in Range(sources) :
                    Reaches(result.edges, s, result.edges[i].sourceId)
              /\ \E t \in Range(targets) :
                    Reaches(result.edges, result.edges[i].targetId, t)

without(list, x) == SelectSeq(list, LAMBDA y : y # x)

NoDanglingEdges(g) ==
    \A i \in 1..Len(g.edges) :
        g.edges[i].sourceId \in NodeIds(g) /\ g.edges[i].targetId \in NodeIds(g)

\* C11: a source or target id that names no node of the graph is ignored:
\* incident returns what it returns for the call without that id.
C11_MissingIdsIgnored ==
    pc = "incidentDone" =>
        \A x \in (Range(sources) \cup Range(targets)) \ NodeIds(graph) :
            result = incident(graph, without(sources, x), without(targets, x))

\* the same for the graphs whose edges all join nodes of the graph
MissingIdsIgnoredWithoutDangling ==
    pc = "incidentDone" /\ NoDanglingEdges(graph) =>
        \A x \in (Range(sources) \cup Range(targets)) \ NodeIds(graph) :
            result = incident(graph, without(sources, x), without(targets, x))

\* C12: every edge of the returned graph joins two returned nodes.
C12_EdgesJoinReturnedNodes ==
    pc = "incidentDone" =>
        \A i \in 1..Len(result.edges) :
            /\ result.edges[i].sourceId \in NodeIds(result)
            /\ result.edges[i].targetId \in NodeIds(result)

\* the same for the graphs whose edges all join nodes of the graph
EdgesJoinReturnedNodesWithoutDangling ==
    pc = "incidentDone" /\ NoDanglingEdges(graph) =>
        \A i \in 1..Len(result.edges) :
            /\ result.edges[i].sourceId \in NodeIds(result)
            /\ result.edges[i].targetId \in NodeIds(result)

(***************************************************************************)
(* The specification of infer.  The graphs have the nodes a, b, c (or only *)
(* a and b, so that an edge may name a node the graph lacks) and up to     *)
(* MaxInferEdges of the six edges between distinct ids; a is a source, c a *)
(* target, b may be either; any of the sources may be left without an      *)
(* intervention.  The provider answers a call with any of Responses or     *)
(* rejects it.                                                             *)
(***************************************************************************)
MaxInferEdges == 3

MaxPasses == 3

InferEdgePairs ==
    << <<"a", "b">>, <<"b", "c">>, <<"a", "c">>,
       <<"c", "b">>, <<"b", "a">>, <<"c", "a">> >>

pick(S) == SelectSeq([i \in 1..Len(InferEdgePairs) |-> i], LAMBDA i : i \in S)

InferEdgeLists ==
    {[k \in 1..Len(pick(S)) |->
         mkEdge(k, InferEdgePairs[pick(S)[k]][1], InferEdgePairs[pick(S)[k]][2])] :
     S \in {T \in SUBSET (1..Len(InferEdgePairs)) : Cardinality(T) <= MaxInferEdges}}

InferGraphs ==
    {[nodes |-> [i \in 1..Len(ns) |-> mkNode(ns[i])], edges |-> es] :
        ns \in {<<"a", "b", "c">>, <<"a", "b">>}, es \in InferEdgeLists}

Low == ConfScale \div 8

Half == ConfScale \div 2

suggest(id, c) == [id |-> id, confidence |-> c]

\* what the provider may answer: nothing, one suggestion, a sure one, and a
\* suggestion under the threshold followed by one for another property
Responses ==
    { <<>>,
      <<suggest("p1", Half)>>,
      <<suggest("p1", Certain)>>,
      <<suggest("p1", Low), suggest("p2", Half)>> }

InitInfer ==
    /\ graph \in InferGraphs
    /\ query = NoGraph
    /\ sources \in {<<"a">>, <<"a", "b">>}
    /\ targets \in {<<"c">>, <<"b", "c">>}
    /\ intervention \in UNION {[S -> {"p0"}] : S \in SUBSET Range(sources)}
    /\ maxIterations \in 0..MaxPasses
    /\ oracle = <<>>
    /\ pc = "call"
    /\ result = InferReturned(<<>>)
    /\ subG = NoGraph
    /\ topo = <<>>
    /\ props = NoProps
    /\ prevProps = NoProps
    /\ iteration = 0
    /\ converged = FALSE
    /\ pos = 0
    /\ calls = <<>>
    /\ rejected = FALSE
    /\ args = <<>>

inputs ==
    <<graph, query, sources, targets, intervention, maxIterations, oracle, args>>

\* Steps 1 to 3, up to the head of the pass loop
InferCall ==
    /\ pc = "call"
    /\ subG' = incident(graph, sources, targets)
    /\ IF Len(subG'.nodes) = 0
       THEN /\ result' = InferReturned([i \in 1..Len(targets) |-> noPathResult(targets[i])])
            /\ pc' = "inferDone"
            /\ UNCHANGED <<topo, props>>
       ELSE /\ topo' = pseudoTopoOrder(subG', sources)
            /\ props' = initialProps(sources, intervention)
            /\ pc' = "loop"
            /\ UNCHANGED result
    /\ UNCHANGED <<inputs, prevProps, iteration, converged, pos, calls, rejected>>

\* the loop condition holds: a pass begins with the copy of the table
PassBegin ==
    /\ pc = "loop"
    /\ loopContinues(iteration, maxIterations, converged)
    /\ iteration' = iteration + 1
    /\ prevProps' = props
    /\ pos' = 1
    /\ calls' = <<>>
    /\ pc' = "visit"
    /\ UNCHANGED <<inputs, result, subG, topo, props, converged, rejected>>

\* a vertex of the order that one of the `continue`s passes over
VisitSkip ==
    /\ pc = "visit"
    /\ pos <= Len(topo)
    /\ ~reachesProvider(subG, sources, props, topo[pos])
    /\ pos' = pos + 1
    /\ UNCHANGED <<inputs, pc, result, subG, topo, props, prevProps, iteration,
                   converged, calls, rejected>>

\* a vertex for which the provider is invoked; infer awaits the answer
VisitCall ==
    /\ pc = "visit"
    /\ pos <= Len(topo)
    /\ reachesProvider(subG, sources, props, topo[pos])
    /\ calls' = Append(calls, topo[pos])
    /\ pc' = "await"
    /\ UNCHANGED <<inputs, result, subG, topo, props, prevProps, iteration,
                   converged, pos, rejected>>

\* the suggestions arrive and are worked into the entry of the vertex
Resume(suggestions) ==
    /\ props' = [props EXCEPT ![topo[pos]] =
                    applySuggestions(@, suggestions, firstSource(subG, props, topo[pos]))]
    /\ pos' = pos + 1
    /\ pc' = "visit"
    /\ UNCHANGED <<inputs, result, subG, topo, prevProps, iteration, converged,
                   calls, rejected>>

ProviderResolves ==
    /\ pc = "await"
    /\ \E suggestions \in Responses : Resume(suggestions)

\* generateObject rejects: nothing catches it, the promise of infer rejects
ProviderRejects ==
    /\ pc = "await"
    /\ rejected' = TRUE
    /\ result' = InferRejected("provider failed")
    /\ pc' = "inferFailed"
    /\ UNCHANGED <<inputs, subG, topo, props, prevProps, iteration, converged,
                   pos, calls>>

\* the order is exhausted: the table is compared with the copy
PassEnd ==
    /\ pc = "visit"
    /\ pos > Len(topo)
    /\ converged' = propagationMapsEqual(prevProps, props)
    /\ pc' = "loop"
    /\ UNCHANGED <<inputs, result, subG, topo, props, prevProps, iteration, pos,
                   calls, rejected>>

\* the loop condition fails: the results for the targets
Finish ==
    /\ pc = "loop"
    /\ ~loopContinues(iteration, maxIterations, converged)
    /\ result' = InferReturned([i \in 1..Len(targets) |->
                                   resultFor(props, targets[i], iteration)])
    /\ pc' = "inferDone"
    /\ UNCHANGED <<inputs, subG, topo, props, prevProps, iteration, converged,
                   pos, calls, rejected>>

NextInfer ==
    \/ InferCall
    \/ PassBegin
    \/ VisitSkip
    \/ VisitCall
    \/ ProviderResolves
    \/ ProviderRejects
    \/ PassEnd
    \/ Finish

SpecInfer == InitInfer /\ [][NextInfer]_vars

(***************************************************************************)
(* infer with a provider that is a function of what it is given: oracle    *)
(* holds the answers given so far, an input met again gets the answer it   *)
(* got before, and no call is rejected.                                    *)
(***************************************************************************)
OracleAnswers ==
    /\ pc = "await"
    /\ LET given == providerInput(subG, props, topo[pos])
       IN  \E suggestions \in Responses :
               /\ given \in DOMAIN oracle => suggestions = oracle[given]
               /\ oracle' = [x \in DOMAIN oracle \cup {given} |->
                                IF x = given THEN suggestions ELSE oracle[x]]
               /\ props' = [props EXCEPT ![topo[pos]] =
                       applySuggestions(@, suggestions,
                                        firstSource(subG, props, topo[pos]))]
    /\ pos' = pos + 1
    /\ pc' = "visit"
    /\ UNCHANGED <<graph, query, sources, targets, intervention, maxIterations,
                   result, subG, topo, prevProps, iteration, converged, calls,
                   rejected, args>>

NextInferDet ==
    \/ InferCall
    \/ PassBegin
    \/ VisitSkip
    \/ VisitCall
    \/ OracleAnswers
    \/ PassEnd
    \/ Finish

SpecInferDet == InitInfer /\ [][NextInferDet]_vars

(***************************************************************************)
(* Claims about infer.                                                     *)
(***************************************************************************)
\* one result per target, in the order of targets
OneResultPerTarget ==
    /\ result.kind = "results"
    /\ Len(result.results) = Len(targets)
    /\ \A i \in 1..Len(targets) : result.results[i].targetNodeId = targets[i]

\* C7: a rejection of the provider for a vertex does not end the run: infer
\* goes on with the pass and returns a result for every target.
C7_ProviderFailureTolerated ==
    rejected =>
        /\ pc \in {"visit", "await", "loop", "inferDone"}
        /\ pc = "inferDone" => OneResultPerTarget

\* the table and its copy agree by vertex, by property id and by confidence
\* within the tolerance
TableUnchanged ==
    \A x \in Ids :
        /\ {props[x][i].property : i \in 1..Len(props[x])}
               = {prevProps[x][i].property : i \in 1..Len(prevProps[x])}
        /\ \A i \in 1..Len(props[x]), j \in 1..Len(prevProps[x]) :
               props[x][i].property = prevProps[x][j].property =>
                   /\ (props[x][i].confidence - prevProps[x][j].confidence) * 1000
                          <= ConfScale
                   /\ (prevProps[x][j].confidence - props[x][i].confidence) * 1000
                          <= ConfScale

\* C8: infer begins at most maxIterations passes; a pass that left the table
\* unchanged is the last one; and a run that the provider did not reject
\* does not fail, whether it converged or not: it returns one result per
\* target, in the order of targets.
C8_BoundedPasses ==
    /\ iteration <= maxIterations
    /\ (pc = "loop" /\ iteration >= 1 /\ TableUnchanged) => converged
    /\ pc \in {"visit", "await"} => ~converged
    /\ pc = "inferFailed" => rejected
    /\ pc = "inferDone" => OneResultPerTarget

\* C8 witness: every one of at least two allowed passes was run with a call
\* of the provider in the last, the last still changed the table, and infer
\* has returned its results.
C8_Witness ==
    /\ pc = "inferDone"
    /\ maxIterations >= 2
    /\ iteration = maxIterations
    /\ calls # <<>>
    /\ ~converged
    /\ ~TableUnchanged
    /\ OneResultPerTarget

Acyclic(g) ==
    \A i \in 1..Len(g.edges) : ~Reaches(g.edges, g.edges[i].targetId, g.edges[i].sourceId)

\* the number of edges of the longest path of an acyclic g that starts at v
RECURSIVE LongestFrom(_, _)
LongestFrom(g, v) ==
    LET out == {i \in 1..Len(g.edges) : g.edges[i].sourceId = v}
        lens == {1 + LongestFrom(g, g.edges[i].targetId) : i \in out}
    IN  IF out = {} THEN 0 ELSE CHOOSE n \in lens : \A m \in lens : m <= n

LongestPath(g) ==
    LET lens == {LongestFrom(g, v) : v \in Ids}
    IN  CHOOSE n \in lens : \A m \in lens : m <= n

\* C9: over an acyclic restricted subgraph, with maxIterations at least the
\* length of its longest path and a provider that answers equal inputs
\* equally, the run ends converged: its last pass left the table unchanged
\* within the tolerance.
C9_ConvergesOnAcyclic ==
    (/\ pc = "inferDone"
     /\ Len(subG.nodes) > 0
     /\ Acyclic(subG)
     /\ maxIterations >= LongestPath(subG)) =>
        converged /\ TableUnchanged

\* the same with a pass to spare and at least one pass allowed
ConvergesWithSparePass ==
    (/\ pc = "inferDone"
     /\ Len(subG.nodes) > 0
     /\ Acyclic(subG)
     /\ maxIterations > LongestPath(subG)) =>
        converged /\ TableUnchanged

\* C16: when the restricted subgraph of the call has no nodes, infer
\* returns, for every target in order, a result without properties, of
\* confidence 0 and reasoning "No R->B path", and never invokes the provider.
C16_NoPathResults ==
    (pc # "call" /\ Len(incident(graph, sources, targets).nodes) = 0) =>
        /\ pc = "inferDone"
        /\ result.kind = "results"
        /\ Len(result.results) = Len(targets)
        /\ \A i \in 1..Len(targets) :
              result.results[i] =
                  [targetNodeId |-> targets[i], predictedProperties |-> <<>>,
                   confidence |-> [factors |-> <<0>>, root |-> 1],
                   reasoning |-> "No R->B path"]
        /\ iteration = 0
        /\ calls = <<>>
        /\ ~rejected

\* C16 witness: infer has returned for two targets, on a graph with edges
\* and a source that has its intervention, and the restricted subgraph has
\* no nodes.
C16_Witness ==
    /\ pc = "inferDone"
    /\ Len(incident(graph, sources, targets).nodes) = 0
    /\ Len(targets) = 2
    /\ Len(graph.edges) >= 2
    /\ DOMAIN intervention = Range(sources)

(***************************************************************************)
(* The specification of the five operations side by side, for what a call  *)
(* leaves of its arguments: graph is a graph over a and b, query one over  *)
(* p and q, with a the source and b, or a and b, the targets, and one of   *)
(* match, merge, intersect, incident and infer (one pass allowed) is       *)
(* called on them.                                                         *)
(***************************************************************************)
InitFrame ==
    /\ graph \in MergeGraphs(<<"a", "b">>, {East, North}, {East}, MaxPairEdges)
    /\ query \in MergeGraphs(<<"p", "q">>, {East}, {East}, MaxPairEdges)
    /\ sources = <<"a">>
    /\ targets \in {<<"b">>, <<"a", "b">>}
    /\ intervention = [x \in {"a"} |-> "p0"]
    /\ maxIterations = 1
    /\ oracle = <<>>
    /\ pc \in {"call", "incident"}
    /\ result = None
    /\ subG = NoGraph
    /\ topo = <<>>
    /\ props = NoProps
    /\ prevProps = NoProps
    /\ iteration = 0
    /\ converged = FALSE
    /\ pos = 0
    /\ calls = <<>>
    /\ rejected = FALSE
    /\ args = <<>>

NextFrame ==
    \/ MatchCall
    \/ MergeCall
    \/ IntersectCall
    \/ IncidentCall
    \/ NextInfer

SpecFrame == InitFrame /\ [][NextFrame]_vars

\* C15: no step of match, intersect, merge, incident or infer changes a
\* graph it was given: the node list and the edge list hold the same
\* elements, in the same order and with the same field values.
C15_ArgumentsUnchanged == [][graph' = graph /\ query' = query]_vars

\* C15 witness: merge has returned a graph to which it pushed a node and an
\* edge of b, and a has the nodes and edges it had.
C15_Witness ==
    /\ pc = "mergeDone"
    /\ result.kind = "graph"
    /\ Len(result.graph.nodes) > Len(graph.nodes)
    /\ Len(result.graph.edges) > Len(graph.edges)
    /\ Len(graph.nodes) >= 1

(***************************************************************************)
(* take over a source that may be endless.  A source is [items, endless]:  *)
(* it gives its items in order and then ends, or, endless, gives them over *)
(* and over.  takeFrom returns what take yields and how many times it      *)
(* asked the source for an element.                                        *)
(***************************************************************************)
ended(source, k) == ~source.endless /\ k > Len(source.items)

item(source, k) == source.items[((k - 1) % Len(source.items)) + 1]

\* a slip the claim about take must catch: the test i > n
RECURSIVE takeLoopOneMore(_, _, _, _)
takeLoopOneMore(source, n, i, yielded) ==
    IF ended(source, i + 1) THEN [items |-> yielded, asked |-> i + 1]
    ELSE IF i > n THEN [items |-> yielded, asked |-> i + 1]
    ELSE takeLoopOneMore(source, n, i + 1, Append(yielded, item(source, i + 1)))

\* the for-of loop of take with i elements yielded so far
RECURSIVE takeLoop(_, _, _, _)
takeLoop(source, n, i, yielded) ==
    IF ended(source, i + 1) THEN [items |-> yielded, asked |-> i + 1]
    ELSE IF i >= n THEN [items |-> yielded, asked |-> i + 1]
    ELSE takeLoop(source, n, i + 1, Append(yielded, item(source, i + 1)))

takeFrom(source, n) == takeLoop(source, n, 0, <<>>)

(***************************************************************************)
(* cosineSimilarityOneToMany, in hundredths.                               *)
(***************************************************************************)
Values(vs) == [kind |-> "values", msg |-> "", values |-> vs]

Failed(msg) == [kind |-> "error", msg |-> msg, values |-> <<>>]

zeros(n) == [i \in 1..n |-> 0]

\* a slip the claim must catch: only the first target is validated
firstMismatchOfFirstOnly(query_, targets_) ==
    IF Len(targets_[1]) # Len(query_) THEN 1 ELSE 0

\* the validation loop: the first target of another length than the query,
\* 0 when there is none
firstMismatch(query_, targets_) ==
    IF \E i \in 1..Len(targets_) : Len(targets_[i]) # Len(query_)
    THEN CHOOSE i \in 1..Len(targets_) :
             /\ Len(targets_[i]) # Len(query_)
             /\ \A j \in 1..(i - 1) : Len(targets_[j]) = Len(query_)
    ELSE 0

cosineSimilarityOneToMany(query_, targets_) ==
    IF Len(targets_) = 0 THEN Values(<<>>)
    ELSE IF Len(query_) = 0 THEN Values(zeros(Len(targets_)))
    ELSE IF firstMismatch(query_, targets_) # 0
    THEN LET i == firstMismatch(query_, targets_)
         IN  Failed("All vectors must have the same length. Query has "
                    \o ToString(Len(query_)) \o ", target["
                    \o ToString(i - 1) \o "] has " \o ToString(Len(targets_[i])))
    ELSE IF magnitude(query_) = 0 THEN Values(zeros(Len(targets_)))
    ELSE Values([i \in 1..Len(targets_) |->
                    IF magnitude(targets_[i]) = 0 THEN 0
                    ELSE (100 * dotProduct(query_, targets_[i]))
                             \div (magnitude(query_) * magnitude(targets_[i]))])

\* a slip the claim about the matrix must catch: the upper triangle
\* computed and never mirrored
entryOfUpperTriangle(vectors, i, j) ==
    IF i = j THEN 100
    ELSE IF i > j THEN 0
    ELSE IF magnitude(vectors[i]) = 0 \/ magnitude(vectors[j]) = 0 THEN 0
    ELSE (100 * dotProduct(vectors[i], vectors[j]))
             \div (magnitude(vectors[i]) * magnitude(vectors[j]))

\* what the fill loop leaves at row i, column j: 1 on the diagonal, and
\* off it the value computed once for the pair and written to both places
entry(vectors, i, j) ==
    IF i = j THEN 100
    ELSE IF magnitude(vectors[i]) = 0 \/ magnitude(vectors[j]) = 0 THEN 0
    ELSE (100 * dotProduct(vectors[i], vectors[j]))
             \div (magnitude(vectors[i]) * magnitude(vectors[j]))

\* the validation loop: the first vector of another length than the first
\* vector, 0 when there is none
firstOfOtherDimension(vectors) ==
    IF \E i \in 2..Len(vectors) : Len(vectors[i]) # Len(vectors[1])
    THEN CHOOSE i \in 2..Len(vectors) :
             /\ Len(vectors[i]) # Len(vectors[1])
             /\ \A j \in 2..(i - 1) : Len(vectors[j]) = Len(vectors[1])
    ELSE 0

cosineSimilarityMatrix(vectors) ==
    IF Len(vectors) = 0 THEN Values(<<>>)
    ELSE IF Len(vectors) = 1 THEN Values(<<<<100>>>>)
    ELSE IF firstOfOtherDimension(vectors) # 0
    THEN LET i == firstOfOtherDimension(vectors)
         IN  Failed("All vectors must have the same length. Vector[0] has "
                    \o ToString(Len(vectors[1])) \o ", vector["
                    \o ToString(i - 1) \o "] has " \o ToString(Len(vectors[i])))
    ELSE Values([i \in 1..Len(vectors) |->
                    [j \in 1..Len(vectors) |-> entry(vectors, i, j)]])

(***************************************************************************)
(* The specification of the enumerator and of cosineSimilarityOneToMany:   *)
(* cartesianProduct over up to MaxLists lists of up to MaxListLen elements *)
(* x and y, called and called again; take over every such list, ending or  *)
(* endless, with n from -1 to MaxListLen + 1; cosineSimilarityOneToMany    *)
(* over a query and up to MaxTargets targets of lengths 0, 1 and 2;        *)
(* cosineSimilarityMatrix over up to MaxVectors such vectors.              *)
(***************************************************************************)
MaxLists == 3

MaxListLen == 2

MaxTargets == 2

MaxVectors == 3

Elements == {"x", "y"}

Vectors == {<<>>, <<1>>, <<0, 0>>, East, North, Slanted}

ProductArgs == {[arrays |-> a] : a \in SeqsUpTo(SeqsUpTo(Elements, MaxListLen), MaxLists)}

TakeArgs ==
    {[source |-> [items |-> s, endless |-> e], n |-> n] :
        s \in SeqsUpTo(Elements, MaxListLen), e \in BOOLEAN,
        n \in -1..(MaxListLen + 1)}
    \ {[source |-> [items |-> <<>>, endless |-> TRUE], n |-> n] :
        n \in -1..(MaxListLen + 1)}

OneToManyArgs ==
    {[query |-> q, targets |-> ts] : q \in Vectors, ts \in SeqsUpTo(Vectors, MaxTargets)}

MatrixArgs == {[vectors |-> vs] : vs \in SeqsUpTo(Vectors, MaxVectors)}

InitIter ==
    /\ \/ pc = "product" /\ args \in ProductArgs
       \/ pc = "take" /\ args \in TakeArgs
       \/ pc = "oneToMany" /\ args \in OneToManyArgs
       \/ pc = "matrix" /\ args \in MatrixArgs
    /\ graph = NoGraph
    /\ query = NoGraph
    /\ sources = <<>>
    /\ targets = <<>>
    /\ result = <<>>
    /\ InferIdle

ProductCall ==
    /\ pc = "product"
    /\ result' = cartesianProduct(args.arrays)
    /\ pc' = "productDone"
    /\ UNCHANGED <<graph, query, sources, targets, inferVars, args>>

\* a fresh call on the same lists, once the first generator is exhausted
ProductCallAgain ==
    /\ pc = "productDone"
    /\ result' = cartesianProduct(args.arrays)
    /\ pc' = "productAgainDone"
    /\ UNCHANGED <<graph, query, sources, targets, inferVars, args>>

TakeCall ==
    /\ pc = "take"
    /\ result' = takeFrom(args.source, args.n)
    /\ pc' = "takeDone"
    /\ UNCHANGED <<graph, query, sources, targets, inferVars, args>>

OneToManyCall ==
    /\ pc = "oneToMany"
    /\ result' = cosineSimilarityOneToMany(args.query, args.targets)
    /\ pc' = "oneToManyDone"
    /\ UNCHANGED <<graph, query, sources, targets, inferVars, args>>

MatrixCall ==
    /\ pc = "matrix"
    /\ result' = cosineSimilarityMatrix(args.vectors)
    /\ pc' = "matrixDone"
    /\ UNCHANGED <<graph, query, sources, targets, inferVars, args>>

NextIter ==
    ProductCall \/ ProductCallAgain \/ TakeCall \/ OneToManyCall \/ MatrixCall

SpecIter == InitIter /\ [][NextIter]_vars

(***************************************************************************)
(* Claims about the enumerator and cosineSimilarityOneToMany.              *)
(***************************************************************************)
\* the product of the lengths of the lists from the i-th on
RECURSIVE SizeFrom(_, _)
SizeFrom(lists, i) ==
    IF i > Len(lists) THEN 1 ELSE Len(lists[i]) * SizeFrom(lists, i + 1)

\* the combinations of one element per list, the k-th being the number
\* k - 1 written with one digit per list, the last list the lowest digit
Combinations(lists) ==
    IF Len(lists) = 0 THEN <<>>
    ELSE [k \in 1..SizeFrom(lists, 1) |->
             [i \in 1..Len(lists) |->
                 lists[i][(((k - 1) \div SizeFrom(lists, i + 1)) % Len(lists[i])) + 1]]]

\* C18: cartesianProduct yields every combination of one element per list
\* once, as many as the product of the lengths, the last list varying
\* fastest; nothing for no lists or an empty list; and a fresh call yields
\* the same again.
C18_ProductInCountingOrder ==
    pc \in {"productDone", "productAgainDone"} =>
        /\ result = Combinations(args.arrays)
        /\ Len(result) = IF Len(args.arrays) = 0 THEN 0 ELSE SizeFrom(args.arrays, 1)
        /\ (\E i \in 1..Len(args.arrays) : Len(args.arrays[i]) = 0) => result = <<>>

\* C18 witness: the second call on three lists of two elements has yielded
\* its eight combinations.
C18_Witness ==
    /\ pc = "productAgainDone"
    /\ Len(args.arrays) = 3
    /\ \A i \in 1..3 : args.arrays[i] = <<"x", "y">>
    /\ Len(result) = 8
    /\ result[2] = <<"x", "x", "y">>

\* C19: take yields the first min(n, length) elements of the sequence in
\* order, nothing for n <= 0, and over an endless sequence it yields n
\* elements and stops, having asked for no more than one element beyond.
C19_TakeFirstN ==
    pc = "takeDone" =>
        LET wanted == IF args.n <= 0 THEN 0 ELSE args.n
            count == IF args.source.endless \/ wanted <= Len(args.source.items)
                     THEN wanted ELSE Len(args.source.items)
        IN  /\ Len(result.items) = count
            /\ \A k \in 1..count :
                  result.items[k] = args.source.items[((k - 1) % Len(args.source.items)) + 1]
            /\ result.asked <= count + 1

\* C19 witness: take has stopped after three elements of an endless
\* sequence of two.
C19_Witness ==
    /\ pc = "takeDone"
    /\ args.source.endless
    /\ args.source.items = <<"x", "y">>
    /\ args.n = 3
    /\ result.items = <<"x", "y", "x">>

SomeTargetOfOtherLength ==
    \E i \in 1..Len(args.targets) : Len(args.targets[i]) # Len(args.query)

\* C20 as stated: cosineSimilarityOneToMany fails with a length-mismatch
\* error whenever some target is of another length than the query.
C20_MismatchFails ==
    pc = "oneToManyDone" /\ SomeTargetOfOtherLength => result.kind = "error"

\* C20 amended: it fails so whenever the query is not empty; for an empty
\* query it returns a 0 per target whatever the lengths of the targets.
C20_MismatchFailsUnlessQueryEmpty ==
    pc = "oneToManyDone" /\ SomeTargetOfOtherLength =>
        IF Len(args.query) = 0
        THEN result = [kind |-> "values", msg |-> "",
                       values |-> [i \in 1..Len(args.targets) |-> 0]]
        ELSE /\ result.kind = "error"
             /\ \E i \in 1..Len(args.targets) :
                   /\ Len(args.targets[i]) # Len(args.query)
                   /\ \A j \in 1..(i - 1) : Len(args.targets[j]) = Len(args.query)
                   /\ result.msg =
                          "All vectors must have the same length. Query has "
                          \o ToString(Len(args.query)) \o ", target["
                          \o ToString(i - 1) \o "] has "
                          \o ToString(Len(args.targets[i]))

\* C20 witness: the call has failed on a second target of another length
\* than the query and the first target.
C20_Witness ==
    /\ pc = "oneToManyDone"
    /\ args.query = East
    /\ args.targets = <<North, <<1>>>>
    /\ result.kind = "error"

\* C21 as stated: for a list of vectors of one length, every entry of the
\* matrix equals cosineSimilarity of the two vectors.
C21_MatrixIsPairwiseSimilarity ==
    pc = "matrixDone" /\ result.kind = "values" =>
        \A i, j \in 1..Len(args.vectors) :
            result.values[i][j] = cosineSimilarity(args.vectors[i], args.vectors[j])

\* C21 amended: every entry off the diagonal equals cosineSimilarity of the
\* two vectors, and so does a diagonal entry whose vector has a magnitude;
\* the diagonal entry of a vector of magnitude 0 is 1 where cosineSimilarity
\* is 0.
C21_MatrixIsPairwiseSimilarityOffZeroDiagonal ==
    pc = "matrixDone" /\ result.kind = "values" =>
        \A i, j \in 1..Len(args.vectors) :
            result.values[i][j] =
                IF i = j /\ magnitude(args.vectors[i]) = 0 THEN 100
                ELSE cosineSimilarity(args.vectors[i], args.vectors[j])

\* C21 witness: the matrix of three vectors of length 2, one of them of
\* magnitude 0, with an entry strictly between 0 and 1.
C21_Witness ==
    /\ pc = "matrixDone"
    /\ args.vectors = <<Slanted, <<0, 0>>, North>>
    /\ result.kind = "values"
    /\ result.values[3][1] = 80
    /\ result.values[2][2] = 100

(***************************************************************************)
(* createGraph and the embedding tasks of its entities.  An entity made by *)
(* createNode or createEdge carries the promise of its embedding task in   *)
(* `ready`: pending, then fulfilled (the embedding is set) or rejected     *)
(* (the embedding stays unset); an entity made by hand has none.  The      *)
(* graph's own `ready` is the promise of an async function that awaits     *)
(* Promise.all of the entities' promises with a catch that logs.  `result` *)
(* is the log.  The log call and the fulfilment of the graph's ready are   *)
(* separate callbacks: a task may settle between them.                     *)
(***************************************************************************)
createNode(i) ==
    [id |-> i, embedding |-> <<>>, hasEmbedding |-> FALSE, ready |-> "pending"]

createEdge(i, s, t) ==
    [id |-> i, sourceId |-> s, targetId |-> t,
     embedding |-> <<>>, hasEmbedding |-> FALSE, ready |-> "pending"]

\* an entity written as a literal, without a task
byHand(entity_) == [entity_ EXCEPT !.ready = "none"]

\* the promises createGraph's ready collects: those of the entities that
\* have one
promisesOf(g) ==
    SelectSeq([k \in 1..Len(g.nodes) |-> g.nodes[k].ready], LAMBDA p : p # "none")
    \o SelectSeq([k \in 1..Len(g.edges) |-> g.edges[k].ready], LAMBDA p : p # "none")

\* Promise.all: rejected as soon as one promise is rejected, fulfilled when
\* all are fulfilled
promiseAll(promises) ==
    IF \E k \in 1..Len(promises) : promises[k] = "rejected" THEN "rejected"
    ELSE IF \A k \in 1..Len(promises) : promises[k] = "fulfilled" THEN "fulfilled"
    ELSE "pending"

MaxReadyNodes == 3

MaxReadyEdges == 2

ReadyGraphs ==
    {[nodes |-> ns, edges |-> es, ready |-> "pending"] :
        ns \in UNION {{[k \in 1..n |-> IF hand[k] THEN byHand(createNode(IdOrder[k]))
                                       ELSE createNode(IdOrder[k])] :
                          hand \in [1..n -> BOOLEAN]} : n \in 0..MaxReadyNodes},
        es \in {[k \in 1..m |-> createEdge("e" \o ToString(k), "a", "a")] :
                   m \in 0..MaxReadyEdges}}

InitReady ==
    /\ graph \in ReadyGraphs
    /\ query = NoGraph
    /\ sources = <<>>
    /\ targets = <<>>
    /\ pc = "awaitAll"
    /\ result = <<>>
    /\ args = <<>>
    /\ InferIdle

\* the embedding of a node arrives
NodeEmbedResolves ==
    \E k \in 1..Len(graph.nodes) :
        /\ graph.nodes[k].ready = "pending"
        /\ graph' = [graph EXCEPT !.nodes[k].ready = "fulfilled",
                                  !.nodes[k].embedding = East,
                                  !.nodes[k].hasEmbedding = TRUE]
        /\ UNCHANGED <<query, sources, targets, pc, result, inferVars, args>>

\* the embedding request of a node fails
NodeEmbedRejects ==
    \E k \in 1..Len(graph.nodes) :
        /\ graph.nodes[k].ready = "pending"
        /\ graph' = [graph EXCEPT !.nodes[k].ready = "rejected"]
        /\ UNCHANGED <<query, sources, targets, pc, result, inferVars, args>>

EdgeEmbedResolves ==
    \E k \in 1..Len(graph.edges) :
        /\ graph.edges[k].ready = "pending"
        /\ graph' = [graph EXCEPT !.edges[k].ready = "fulfilled",
                                  !.edges[k].embedding = East,
                                  !.edges[k].hasEmbedding = TRUE]
        /\ UNCHANGED <<query, sources, targets, pc, result, inferVars, args>>

EdgeEmbedRejects ==
    \E k \in 1..Len(graph.edges) :
        /\ graph.edges[k].ready = "pending"
        /\ graph' = [graph EXCEPT !.edges[k].ready = "rejected"]
        /\ UNCHANGED <<query, sources, targets, pc, result, inferVars, args>>

\* Promise.all has fulfilled: the graph's ready resolves
AllFulfilled ==
    /\ pc = "awaitAll"
    /\ promiseAll(promisesOf(graph)) = "fulfilled"
    /\ graph' = [graph EXCEPT !.ready = "fulfilled"]
    /\ pc' = "readyDone"
    /\ UNCHANGED <<query, sources, targets, result, inferVars, args>>

\* Promise.all has rejected: the catch handler logs the error, once; the
\* await has not resumed yet and the graph's ready is still pending
AllRejected ==
    /\ pc = "awaitAll"
    /\ promiseAll(promisesOf(graph)) = "rejected"
    /\ result = <<>>
    /\ result' = Append(result, "error")
    /\ UNCHANGED <<graph, query, sources, targets, pc, inferVars, args>>

\* the catch handler has returned: the await resumes and the graph's ready
\* resolves, whatever the tasks have done in between
CatchReturns ==
    /\ pc = "awaitAll"
    /\ result # <<>>
    /\ graph' = [graph EXCEPT !.ready = "fulfilled"]
    /\ pc' = "readyDone"
    /\ UNCHANGED <<query, sources, targets, result, inferVars, args>>

NextReady ==
    \/ NodeEmbedResolves \/ NodeEmbedRejects
    \/ EdgeEmbedResolves \/ EdgeEmbedRejects
    \/ AllFulfilled \/ AllRejected \/ CatchReturns

SpecReady == InitReady /\ [][NextReady]_vars

StillPending(g) ==
    \/ \E k \in 1..Len(g.nodes) : g.nodes[k].ready = "pending"
    \/ \E k \in 1..Len(g.edges) : g.edges[k].ready = "pending"

SomeRejected(g) ==
    \/ \E k \in 1..Len(g.nodes) : g.nodes[k].ready = "rejected"
    \/ \E k \in 1..Len(g.edges) : g.edges[k].ready = "rejected"

\* C22: once the graph's ready has resolved no embedding task of a node or
\* an edge of the graph is still pending, and the graph's ready is never
\* rejected.
C22_ReadyMeansNoTaskPending ==
    /\ graph.ready # "rejected"
    /\ graph.ready = "fulfilled" => ~StillPending(graph)

\* what holds of it: the graph's ready is never rejected, and when it has
\* resolved with nothing logged every task has set its embedding
ReadyWithoutFailureMeansEmbedded ==
    /\ graph.ready # "rejected"
    /\ graph.ready = "fulfilled" /\ result = <<>> =>
          /\ ~StillPending(graph)
          /\ \A k \in 1..Len(graph.nodes) :
                graph.nodes[k].ready = "fulfilled" => graph.nodes[k].hasEmbedding

(***************************************************************************)
(* Claims about the table of infer across its steps.                       *)
(***************************************************************************)
\* the step in which the answer `suggestions` of the provider is worked
\* into the entry of the vertex being visited
Worked(suggestions) ==
    /\ pc = "await"
    /\ pc' = "visit"
    /\ props' = [props EXCEPT ![topo[pos]] =
                    applySuggestions(@, suggestions, firstSource(subG, props, topo[pos]))]

\* the accepted suggestions of an answer whose property the entry holds
Recombined(suggestions) ==
    {k \in 1..Len(suggestions) :
        /\ suggestions[k].confidence * 100 >= confThreshold * ConfScale
        /\ \E i \in 1..Len(props[topo[pos]]) :
              props[topo[pos]][i].property = suggestions[k].id}

\* C23: an accepted suggestion for a property the entry already holds
\* leaves the entry with confidence c1 + c2 - c1*c2 and attributed to the
\* source of the higher of c1 and c2: to the suggestion's when c2 > c1.
C23_CombinedAndAttributedToTheStronger ==
    [][\A suggestions \in Responses :
          Worked(suggestions) =>
              \A k \in Recombined(suggestions) :
                  \E i \in 1..Len(props[topo[pos]]) :
                      LET held == props[topo[pos]][i]
                          c1 == held.confidence
                          c2 == suggestions[k].confidence
                      IN  /\ held.property = suggestions[k].id
                          /\ props'[topo[pos]][i].confidence
                                 = c1 + c2 - (c1 * c2) \div ConfScale
                          /\ props'[topo[pos]][i].from
                                 = IF c2 > c1 THEN firstSource(subG, props, topo[pos])
                                   ELSE held.from]_vars

\* what holds of it: the confidence is combined so, and the attribution of
\* a property the entry holds never changes
CombinedAndAttributionKept ==
    [][\A suggestions \in Responses :
          Worked(suggestions) =>
              \A k \in Recombined(suggestions) :
                  \E i \in 1..Len(props[topo[pos]]) :
                      LET held == props[topo[pos]][i]
                          c1 == held.confidence
                          c2 == suggestions[k].confidence
                      IN  /\ held.property = suggestions[k].id
                          /\ props'[topo[pos]][i].confidence
                                 = c1 + c2 - (c1 * c2) \div ConfScale
                          /\ props'[topo[pos]][i].from = held.from]_vars

(***************************************************************************)
(* The specification of similarEdges: called, as similarSubGraphs calls    *)
(* it, with one of the node assignments similarNodes yields and the        *)
(* default options.  The graphs have the nodes a and b, both East, and up  *)
(* to MaxJoinEdges edges among them, East or North; the queries have the   *)
(* node p or the nodes p and q, East, and up to MaxSkipEdges edges among   *)
(* p and q, so that with q no node an edge that names it is skipped.       *)
(* ParallelInputs add the graphs of up to MaxParallel parallel edges.      *)
(* `args` holds the assignment; `result` holds, at the end of the call,    *)
(* the incident edges, candidates_ij and what was yielded.                 *)
(***************************************************************************)
MaxJoinEdges == 2

MaxSkipEdges == 2

JoinGraphs ==
    {[nodes |-> positional(IdOrder, <<East, East>>), edges |-> numbered(es)] :
        es \in SeqsUpTo({"a", "b"} \X {"a", "b"} \X {East, North}, MaxJoinEdges)}

SkipQueries ==
    UNION {{[nodes |-> positional(<<"p", "q">>, [i \in 1..n |-> East]),
             edges |-> numbered(es)] :
               es \in SeqsUpTo(QueryIds \X QueryIds \X {East}, MaxSkipEdges)} :
           n \in 1..2}

EdgeInputs == (JoinGraphs \X SkipQueries) \cup ParallelInputs

InitEdges ==
    /\ \E p \in EdgeInputs : graph = p[1] /\ query = p[2]
    /\ \E a \in Range(similarNodes(graph, query, DEFAULT_N, DEFAULT_THRESHOLD).items) :
           args = [nodeCandidates |-> a]
    /\ sources = <<>>
    /\ targets = <<>>
    /\ pc = "edges"
    /\ result = <<>>
    /\ InferIdle

SimilarEdgesCall ==
    /\ pc = "edges"
    /\ result' =
          [incidentEdges |-> incidentEdgesOf(graph, args.nodeCandidates, DEFAULT_N).items,
           candidates_ij |-> candidates_ij(graph, query, args.nodeCandidates,
                                           DEFAULT_N, DEFAULT_THRESHOLD),
           yielded |-> similarEdges(graph, query, args.nodeCandidates,
                                    DEFAULT_N, DEFAULT_THRESHOLD)]
    /\ pc' = "edgesDone"
    /\ UNCHANGED <<graph, query, sources, targets, inferVars, args>>

NextEdges == SimilarEdgesCall

SpecEdges == InitEdges /\ [][NextEdges]_vars

\* the graph nodes the assignment gives the query node of id x
AssignedIn(x) ==
    {args.nodeCandidates[i].candidateId :
        i \in {k \in 1..Len(args.nodeCandidates) :
                  args.nodeCandidates[k].referenceId = x}}

\* the query edges both endpoints of which have an assignment, in order
Remaining ==
    SelectSeq(query.edges, LAMBDA qe :
        AssignedIn(qe.sourceId) # {} /\ AssignedIn(qe.targetId) # {})

\* graph edge e joins the nodes assigned to the endpoints of query edge qe
\* and resembles it
JoinsFor(e, qe) ==
    /\ e.sourceId \in AssignedIn(qe.sourceId)
    /\ e.targetId \in AssignedIn(qe.targetId)
    /\ Similar(qe, e)

\* C24: every graph edge that joins the nodes assigned to the endpoints of
\* a query edge, and resembles it, is among the candidates of that query
\* edge, however many edges the graph has.
C24_EveryJoiningEdgeIsCandidate ==
    pc = "edgesDone" /\ result.yielded.error = "" =>
        \A m \in 1..Len(Remaining) : \A e \in Range(graph.edges) :
            JoinsFor(e, Remaining[m]) =>
                /\ m <= Len(result.candidates_ij)
                /\ \E c \in Range(result.candidates_ij[m]) :
                      c.referenceId = Remaining[m].id /\ c.candidateId = e.id

\* the same on graphs of at most DEFAULT_N edges
EveryJoiningEdgeOfTenIsCandidate ==
    pc = "edgesDone" /\ result.yielded.error = "" /\ Len(graph.edges) <= DEFAULT_N =>
        \A m \in 1..Len(Remaining) : \A e \in Range(graph.edges) :
            JoinsFor(e, Remaining[m]) =>
                /\ m <= Len(result.candidates_ij)
                /\ \E c \in Range(result.candidates_ij[m]) :
                      c.referenceId = Remaining[m].id /\ c.candidateId = e.id

\* every remaining query edge has a graph edge that joins for it
EveryRemainingAnswered ==
    \A m \in 1..Len(Remaining) : \E e \in Range(graph.edges) : JoinsFor(e, Remaining[m])

\* C27: a query edge with an endpoint that has no assignment is skipped:
\* every yielded assignment carries one candidate for each remaining query
\* edge and none for a skipped one, and an assignment is yielded whenever
\* every remaining query edge has a candidate, also when none remains.
\* Stated on graphs of at most DEFAULT_N edges, where every joining edge is
\* a candidate.
C27_SkippedEdgesLeaveTheRest ==
    pc = "edgesDone" /\ result.yielded.error = "" /\ Len(graph.edges) <= DEFAULT_N =>
        /\ \A asg \in Range(result.yielded.items) :
              /\ Len(asg) = Len(Remaining)
              /\ \A m \in 1..Len(Remaining) : asg[m].referenceId = Remaining[m].id
        /\ EveryRemainingAnswered => result.yielded.items # <<>>

\* the same when a query edge remains
SkippedEdgesLeaveTheRestIfAny ==
    pc = "edgesDone" /\ result.yielded.error = "" /\ Len(graph.edges) <= DEFAULT_N =>
        /\ \A asg \in Range(result.yielded.items) :
              /\ Len(asg) = Len(Remaining)
              /\ \A m \in 1..Len(Remaining) : asg[m].referenceId = Remaining[m].id
        /\ EveryRemainingAnswered /\ Len(Remaining) >= 1 => result.yielded.items # <<>>

(***************************************************************************)
(* Claims about the order infer visits the vertices in.                    *)
(***************************************************************************)
\* the places of the id x in the order
PlacesOf(order, x) == {k \in 1..Len(order) : order[k] = x}

\* u and v lie in different strongly connected components of g
InDifferentComponents(g, u, v) ==
    ~(Reaches(g.edges, u, v) /\ Reaches(g.edges, v, u))

\* infer has computed its order
Ordered == pc \notin {"call"} /\ Len(subG.nodes) > 0

\* C25: the order infer computes has every vertex of the restricted
\* subgraph exactly once, and for every edge u->v of the subgraph between
\* different strongly connected components u comes before v.
C25_OrderCoversAndRespectsEdges ==
    Ordered =>
        /\ \A x \in NodeIdsOf(subG) : Cardinality(PlacesOf(topo, x)) = 1
        /\ \A e \in Range(subG.edges) :
              InDifferentComponents(subG, e.sourceId, e.targetId) =>
                  \A i \in PlacesOf(topo, e.sourceId), j \in PlacesOf(topo, e.targetId) :
                      i < j

\* what holds of it: when the sources reach every vertex of the subgraph
\* and every edge's source along the edges of the subgraph, the order is as
\* C25 says
OrderOfTheReachedCoversAndRespectsEdges ==
    (/\ Ordered
     /\ \A x \in NodeIdsOf(subG) \cup {e.sourceId : e \in Range(subG.edges)} :
           \E s \in Range(sources) : Reaches(subG.edges, s, x)) =>
        /\ \A x \in NodeIdsOf(subG) : Cardinality(PlacesOf(topo, x)) = 1
        /\ \A e \in Range(subG.edges) :
              InDifferentComponents(subG, e.sourceId, e.targetId) =>
                  \A i \in PlacesOf(topo, e.sourceId), j \in PlacesOf(topo, e.targetId) :
                      i < j

(***************************************************************************)
(* Claims about the calls of the provider.  `calls` lists the vertices the *)
(* provider was invoked for in the current pass, in order.                 *)
(***************************************************************************)
\* C26: within a pass the provider is invoked for one vertex at a time, at
\* most once for a vertex, never for a source, and never for a vertex no
\* incoming edge of which comes from a vertex that holds properties.
C26_ProviderCalledOncePerEligibleVertex ==
    /\ \A i, j \in 1..Len(calls) : calls[i] = calls[j] => i = j
    /\ \A c \in Range(calls) :
          /\ c \notin Range(sources)
          /\ \E e \in Range(subG.edges) : e.targetId = c /\ props[e.sourceId] # <<>>
    /\ pc = "await" =>
          /\ calls # <<>>
          /\ calls[Len(calls)] = topo[pos]
          /\ \A k \in 1..(Len(calls) - 1) :
                \E m \in 1..(pos - 1) : topo[m] = calls[k]

\* C26 witness: in the second pass the provider is awaited for the second
\* vertex of the pass, while a vertex of the order was passed over.
C26_Witness ==
    /\ pc = "await"
    /\ iteration = 2
    /\ Len(calls) = 2
    /\ pos = 3
    /\ topo[1] \in Range(sources)

(***************************************************************************)
(* Claims about the validity of what match returns.                        *)
(***************************************************************************)
\* C28: for a valid graph and a valid query the subgraph match returns is
\* valid: its node ids are pairwise distinct and its edge ids are pairwise
\* distinct.
C28_MatchReturnsValidGraph ==
    (/\ pc = "matchDone"
     /\ ValidInput(graph) /\ ValidInput(query)
     /\ result.kind = "graph") =>
        ValidInput(result.graph)

\* the same for a query of at most one node and at most one edge
MatchOfSingleNodeAndEdgeIsValid ==
    (/\ pc = "matchDone"
     /\ ValidInput(graph) /\ ValidInput(query)
     /\ Len(query.nodes) <= 1 /\ Len(query.edges) <= 1
     /\ result.kind = "graph") =>
        ValidInput(result.graph)

(***************************************************************************)
(* The specification of take and of match as its caller: take over the     *)
(* sources of SpecIter, and match over graphs with the nodes a and b, both *)
(* East, and up to MaxLateEdges loops at a or b, with an embedding, with   *)
(* none, or with one of another length, against the query of one node p    *)
(* with a loop, so that the second node assignment can meet an edge the    *)
(* first does not.                                                         *)
(***************************************************************************)
MaxLateEdges == 2

LoopQuery ==
    [nodes |-> positional(<<"p">>, <<East>>),
     edges |-> <<link("e1", "p", "p", East, TRUE)>>]

LateGraphs ==
    {[nodes |-> positional(IdOrder, <<East, East>>),
      edges |-> [k \in 1..Len(es) |->
                    link("e" \o ToString(k), es[k][1], es[k][1], es[k][2][1], es[k][2][2])]] :
        es \in SeqsUpTo({"a", "b"} \X {<<East, TRUE>>, <<East, FALSE>>, <<Short, TRUE>>},
                        MaxLateEdges)}

InitTakeOne ==
    /\ \/ /\ pc = "take"
          /\ args \in TakeArgs
          /\ graph = NoGraph
          /\ query = NoGraph
       \/ /\ pc = "call"
          /\ args = <<>>
          /\ graph \in LateGraphs
          /\ query = LoopQuery
    /\ sources = <<>>
    /\ targets = <<>>
    /\ result = None
    /\ InferIdle

NextTakeOne == TakeCall \/ MatchCall

SpecTakeOne == InitTakeOne /\ [][NextTakeOne]_vars

\* the subgraphs the search of match produces, up to where it fails
Produced == similarSubGraphs(graph, query, DEFAULT_N, DEFAULT_THRESHOLD)

\* C29: take with n >= 1 advances its source at most n times; so match,
\* which takes one subgraph, returns the first subgraph produced whatever
\* comes after it.
C29_TakeStopsAtN ==
    /\ pc = "takeDone" /\ args.n >= 1 => result.asked <= args.n
    /\ pc = "matchDone" /\ Produced.items # <<>> =>
          result = Returned(Produced.items[1])

\* what holds of it: take advances its source at most n + 1 times, and
\* match returns the first subgraph produced unless the search for the
\* second fails
TakeStopsAfterN ==
    /\ pc = "takeDone" /\ args.n >= 1 => result.asked <= args.n + 1
    /\ pc = "matchDone" /\ Produced.items # <<>> =>
          \/ result = Returned(Produced.items[1])
          \/ /\ Len(Produced.items) = 1
             /\ Produced.error # ""
             /\ result = Raised(Produced.error)

(***************************************************************************)
(* Claims about the growth of the table of infer.                          *)
(***************************************************************************)
\* every confidence of the table is within [0,1], the entries of the
\* vertices that are no sources hold nothing under the threshold, and the
\* entry of a source is its intervention property at confidence 1, or
\* nothing when it has none
TableWellFormed ==
    pc \notin {"call"} /\ Len(subG.nodes) > 0 =>
        \A x \in Ids :
            /\ \A i \in 1..Len(props[x]) :
                  /\ props[x][i].confidence >= 0
                  /\ props[x][i].confidence <= Certain
            /\ x \notin Range(sources) =>
                  \A i \in 1..Len(props[x]) :
                      props[x][i].confidence * 100 >= confThreshold * ConfScale
            /\ x \in Range(sources) =>
                  props[x] = IF x \in DOMAIN intervention
                             THEN <<[property |-> intervention[x],
                                     confidence |-> Certain, from |-> x]>>
                             ELSE <<>>

\* a step keeps every property of every entry in its place, with a
\* confidence no lower than before
TableGrows ==
    \A x \in Ids : \A i \in 1..Len(props[x]) :
        /\ i <= Len(props'[x])
        /\ props'[x][i].property = props[x][i].property
        /\ props'[x][i].confidence >= props[x][i].confidence

\* C30: across the passes of infer the table only grows: no property once
\* in an entry is removed, no confidence decreases or leaves [0,1], the
\* entries of vertices that are no sources hold nothing under
\* confThreshold, and a source's entry stays its intervention property at
\* confidence 1.
C30_TableOnlyGrows == []TableWellFormed /\ [][TableGrows]_vars

\* C30 witness: in a later pass a vertex that is no source holds two
\* properties, one of them with a combined confidence above the provider's.
C30_Witness ==
    /\ iteration >= 2
    /\ \E x \in Ids \ Range(sources) :
          /\ Len(props[x]) = 2
          /\ \E i \in 1..2 :
                props[x][i].confidence > Half /\ props[x][i].confidence < Certain
    /\ \E s \in Range(sources) : props[s] # <<>>

====
